---- MODULE Spec2Model ----
(***************************************************************************)
(* A model of the recall-quickstart trading programs:                      *)
(*   TradingChatSystem  (trading_chat.py): the chat thread, the ledger,    *)
(*                      the trade history and the auto_trading_loop        *)
(*                      threads it spawns;                                 *)
(*   RecallChatBot      (chat.py) and RecallTradingAgent                   *)
(*                      (trading_agent.py): the API-backed variants.       *)
(*                                                                         *)
(* Units.  Token amounts are integers in thousandths of a token (100 USDC  *)
(* is 100000).  A price is an exact fraction <<n, d>>; the snapshot stores *)
(* prices in millionths and 24h changes in thousandths.  Time is in        *)
(* seconds.  Python's float arithmetic is replaced by exact arithmetic on  *)
(* these units, rounding a product down to a thousandth of a token.        *)
(***************************************************************************)
EXTENDS Integers, Sequences, FiniteSets, TLC

(***************************************************************************)
(* Bounds of the model.                                                    *)
(***************************************************************************)
MaxLoops == 2       \* auto_trading_loop threads ever spawned
MaxTrades == 2      \* calls of execute_trade ever begun
MaxTicks == 1       \* advances of the clock

(***************************************************************************)
(* Program constants (trading_chat.py, __init__).                          *)
(***************************************************************************)
default_trade_amount == 100
max_trade_amount == 10000
min_trade_amount == 10
trade_interval == 300
risk_factor_pct == 2          \* risk_factor = 0.02, in hundredths
poll_sleep == 5               \* time.sleep(5) at the end of an iteration
error_sleep == 10             \* time.sleep(10) after a caught fault

Tok(n) == n * 1000            \* n whole tokens, in thousandths

TOKENS == {"USDC", "WETH", "DAI", "WBTC", "UNI", "LINK", "AAVE", "MATIC"}

strategies == {"trend", "meanreversion", "arbitrage", "random"}

None == "None"

get_initial_balance ==
    ("USDC" :> Tok(10000)) @@ ("WETH" :> Tok(5)) @@ ("DAI" :> Tok(5000))
        @@ ("WBTC" :> 250)

\* price, 24h_high, 24h_low in millionths; 24h_change in thousandths.
initialize_market_data ==
    (<<"USDC", "WETH">> :> [price |-> 480, change |-> 23, high |-> 500, low |-> 460])
    @@ (<<"WETH", "BTC">> :> [price |-> 53000, change |-> -12, high |-> 55000, low |-> 52000])
    @@ (<<"USDC", "DAI">> :> [price |-> 999000, change |-> 1, high |-> 1001000, low |-> 998000])
    @@ (<<"WETH", "UNI">> :> [price |-> 15200000, change |-> 18, high |-> 15500000, low |-> 14900000])
    @@ (<<"USDC", "WBTC">> :> [price |-> 32, change |-> -5, high |-> 33, low |-> 31])

market_data == initialize_market_data

(***************************************************************************)
(* Arithmetic helpers.                                                     *)
(***************************************************************************)
Min(a, b) == IF a <= b THEN a ELSE b

RECURSIVE Gcd(_, _)
Gcd(a, b) == IF b = 0 THEN a ELSE Gcd(b, a % b)

\* The fraction n/d in lowest terms.
Ratio(n, d) == <<n \div Gcd(n, d), d \div Gcd(n, d)>>

\* floor(a * n / d), computed without forming a * n.
MulDiv(a, n, d) == (a \div d) * n + ((a % d) * n) \div d

(***************************************************************************)
(* Pure functions of TradingChatSystem.                                    *)
(***************************************************************************)
\* dict.get(key, 0)
Get(bal, tok) == IF tok \in DOMAIN bal THEN bal[tok] ELSE 0

\* balance * risk_factor
RiskShare(b) == (b * risk_factor_pct) \div 100

\* TradePrice without the look-up of the reverse pair.
TradePriceDirectOnly(md, from_token, to_token) ==
    IF <<from_token, to_token>> \in DOMAIN md
    THEN Ratio(md[<<from_token, to_token>>].price, 1000000)
    ELSE <<1, 1>>

\* execute_trade: the price of one unit of from_token in to_token.
TradePrice(md, from_token, to_token) ==
    IF <<from_token, to_token>> \in DOMAIN md
    THEN Ratio(md[<<from_token, to_token>>].price, 1000000)
    ELSE IF <<to_token, from_token>> \in DOMAIN md
         THEN Ratio(1000000, md[<<to_token, from_token>>].price)
         ELSE <<1, 1>>

\* received_amount = amount * price
Received(amount, price) == MulDiv(amount, price[1], price[2])

\* A strategy's result: <<from_token, to_token, amount>>, or NoDecision (None).
NoDecision == <<>>

\* trend_following_strategy with the thresholds included, `>=` and `<=`.
trend_following_strategy_inclusive(md, bal) ==
    LET pair == <<"USDC", "WETH">> IN
    IF pair \notin DOMAIN md THEN NoDecision
    ELSE IF md[pair].change >= 20
         THEN <<"USDC", "WETH",
                Min(Tok(default_trade_amount), RiskShare(Get(bal, "USDC")))>>
         ELSE IF md[pair].change <= -10
              THEN <<"WETH", "USDC", Min(100, RiskShare(Get(bal, "WETH")))>>
              ELSE NoDecision

trend_following_strategy(md, bal) ==
    LET pair == <<"USDC", "WETH">> IN
    IF pair \notin DOMAIN md THEN NoDecision
    ELSE IF md[pair].change > 20
         THEN <<"USDC", "WETH",
                Min(Tok(default_trade_amount), RiskShare(Get(bal, "USDC")))>>
         ELSE IF md[pair].change < -10
              THEN <<"WETH", "USDC", Min(100, RiskShare(Get(bal, "WETH")))>>
              ELSE NoDecision

mean_reversion_strategy(md, bal) ==
    LET pair == <<"USDC", "WETH">> IN
    IF pair \notin DOMAIN md THEN NoDecision
    ELSE LET current_price == md[pair].price
             twice_mean == md[pair].high + md[pair].low
         IN  IF current_price * 200 < twice_mean * 98
             THEN <<"USDC", "WETH",
                    Min(Tok(default_trade_amount), RiskShare(Get(bal, "USDC")))>>
             ELSE IF current_price * 200 > twice_mean * 102
                  THEN <<"WETH", "USDC", Min(100, RiskShare(Get(bal, "WETH")))>>
                  ELSE NoDecision

\* rnd = <<from_token, to_token, u>>: the three draws of random_strategy,
\* random.choice(tokens), random.choice(tokens without from_token) and
\* random.uniform(10, 100).
random_strategy(bal, rnd) ==
    LET max_amount == Get(bal, rnd[1]) IN
    IF max_amount > 0
    THEN <<rnd[1], rnd[2], Min(rnd[3], RiskShare(max_amount))>>
    ELSE NoDecision

generate_trade_decision(strategy, md, bal, rnd) ==
    IF strategy = None THEN NoDecision
    ELSE IF strategy = "trend" THEN trend_following_strategy(md, bal)
    ELSE IF strategy = "meanreversion" THEN mean_reversion_strategy(md, bal)
    ELSE IF strategy = "random" THEN random_strategy(bal, rnd)
    ELSE NoDecision

(***************************************************************************)
(* State.                                                                  *)
(***************************************************************************)
VARIABLES
    \* TradingChatSystem
    balance,              \* self.balance: token -> amount (a dict: the domain grows)
    trade_history,        \* self.trade_history
    active_strategy,      \* self.active_strategy (None or a name)
    auto_trading_active,  \* self.auto_trading_active
    stop_event,           \* self.stop_event.is_set()
    auto_trading_thread,  \* self.auto_trading_thread: 0 (None) or the latest loop thread
    now,                  \* time.time()
    pc,                   \* position of every thread
    frame,                \* locals of a thread's call of execute_trade
    last_trade_time,      \* auto_trading_loop local, per loop thread
    current_time,         \* auto_trading_loop local, per loop thread
    wake,                 \* end of a loop thread's time.sleep
    response,             \* what the chat loop printed last
    \* history variables, read by the properties only
    pre,                  \* the ledger when a thread entered execute_trade
    dirty,                \* another thread wrote the ledger or the history since
    stop_seen,            \* what a loop thread has made of a stop command
    \* RecallChatBot
    simulated_balance,    \* self.simulated_balance
    bot_response,         \* what handle_trade returned last
    \* RecallTradingAgent
    agent_balance,        \* self.balance
    agent_history,        \* self.trade_history
    agent_result,         \* what execute_trade returned last
    \* the trade endpoint
    api_calls,            \* requests posted so far
    api_last,             \* the endpoint's answer to the last request
    \* the chat session of TradingChatSystem
    user_state,           \* self.user_state: user id -> {"alerts": [...]}
    last_alert_check,     \* start_chat local
    created,              \* alerts created so far (their "created" stamps differ)
    bot_pc,               \* RecallChatBot.start_chat: "input" or "exited"
    user_input,           \* the line read last, a sequence of characters
    parsed,               \* what parse_command made of it
    \* the strategies, called on their own
    snapshot,             \* the market data a strategy is called with
    decision,             \* the strategy called last and what it returned
    \* check_alerts, step by step
    scan,                 \* locals of a thread's call of check_alerts
    \* history variables, read by the properties only
    reported,             \* how often each alert was reported as triggered
    faults                \* exceptions caught by each loop thread

tcsVars == <<balance, trade_history, active_strategy, auto_trading_active,
             stop_event, auto_trading_thread, now, pc, frame, last_trade_time,
             current_time, wake, response, pre, dirty, stop_seen>>

\* tcsVars but for response
tcsStateVars == <<balance, trade_history, active_strategy, auto_trading_active,
                  stop_event, auto_trading_thread, now, pc, frame, last_trade_time,
                  current_time, wake, pre, dirty, stop_seen>>

apiVars == <<simulated_balance, bot_response, agent_balance, agent_history,
             agent_result, api_calls, api_last>>

evalVars == <<snapshot, decision>>

scanVars == <<scan, reported, faults>>

chatVars == <<user_state, last_alert_check, created, bot_pc, user_input, parsed,
              evalVars, scanVars>>

vars == <<tcsVars, apiVars, chatVars>>

Chat == 0
Loops == 1..MaxLoops
Threads == {Chat} \cup Loops

EtPcs == {"et_debit_rd", "et_debit_wr", "et_credit_rd", "et_credit_wr",
          "et_id", "et_append"}

NoFrame == [from_token |-> None, to_token |-> None, amount |-> 0, reason |-> None,
            price |-> <<1, 1>>, received |-> 0, tmp |-> 0, present |-> FALSE,
            id |-> <<0, 0>>, by |-> None]

\* The process is alive until the chat loop ends (the loop threads are daemons).
Running == pc[Chat] # "exited"

\* Calls of execute_trade begun so far.
TradesBegun == Len(trade_history) + Cardinality({e \in Threads : pc[e] \in EtPcs})

TcsControlInit ==
    /\ trade_history = <<>>
    /\ active_strategy = None
    /\ auto_trading_active = FALSE
    /\ stop_event = FALSE
    /\ auto_trading_thread = 0
    /\ now = 0
    /\ pc = [e \in Threads |-> IF e = Chat THEN "input" ELSE "unborn"]
    /\ frame = [e \in Threads |-> NoFrame]
    /\ last_trade_time = [t \in Loops |-> 0]
    /\ current_time = [t \in Loops |-> 0]
    /\ wake = [t \in Loops |-> 0]
    /\ response = "welcome"
    /\ pre = [e \in Threads |-> <<>>]
    /\ dirty = [e \in Threads |-> FALSE]
    /\ stop_seen = [t \in Loops |-> "no"]

TcsInit == balance = get_initial_balance /\ TcsControlInit

(***************************************************************************)
(* execute_trade, one step per access to the shared ledger or history.     *)
(* There is no lock in the program: the chat thread and every loop thread  *)
(* run these steps interleaved.                                            *)
(***************************************************************************)
\* Another thread's write reaches every call of execute_trade under way.
MarkDirty(e) ==
    [x \in Threads |->
        IF x # e /\ pc[x] \in (EtPcs \ {"et_debit_rd"}) THEN TRUE ELSE dirty[x]]

\* Raise without the `except Exception` of auto_trading_loop: the exception
\* ends the loop thread.
RaiseUncaught(e) ==
    /\ frame' = [frame EXCEPT ![e] = NoFrame]
    /\ IF e = Chat
       THEN /\ pc' = [pc EXCEPT ![e] = "input"]
            /\ response' = "processing_error"
            /\ wake' = wake
       ELSE /\ pc' = [pc EXCEPT ![e] = "done"]
            /\ wake' = wake
            /\ response' = response

\* An exception leaves the handler: start_chat prints a processing error,
\* auto_trading_loop logs it and sleeps error_sleep seconds.
Raise(e) ==
    /\ frame' = [frame EXCEPT ![e] = NoFrame]
    /\ IF e = Chat
       THEN /\ pc' = [pc EXCEPT ![e] = "input"]
            /\ response' = "processing_error"
            /\ wake' = wake
       ELSE /\ pc' = [pc EXCEPT ![e] = "l_sleep"]
            /\ wake' = [wake EXCEPT ![e] = now + error_sleep]
            /\ response' = response

\* The price and received_amount; the read of `self.balance[from_token] -= amount`.
EtDebitRd(e) ==
    /\ Running
    /\ pc[e] = "et_debit_rd"
    /\ LET f == frame[e]
           price == TradePrice(market_data, f.from_token, f.to_token)
       IN  IF f.from_token \notin DOMAIN balance
           THEN /\ Raise(e)
                /\ UNCHANGED <<pre, dirty>>
           ELSE /\ frame' = [frame EXCEPT ![e] =
                        [f EXCEPT !.price = price,
                                  !.received = Received(f.amount, price),
                                  !.tmp = balance[f.from_token]]]
                /\ pc' = [pc EXCEPT ![e] = "et_debit_wr"]
                /\ pre' = [pre EXCEPT ![e] = balance]
                /\ dirty' = [dirty EXCEPT ![e] = FALSE]
                /\ UNCHANGED <<wake, response>>
    /\ UNCHANGED <<apiVars, chatVars>>
    /\ UNCHANGED <<balance, trade_history, active_strategy, auto_trading_active,
                   stop_event, auto_trading_thread, now, last_trade_time,
                   current_time, stop_seen>>

\* The write of `self.balance[from_token] -= amount`.
EtDebitWr(e) ==
    /\ Running
    /\ pc[e] = "et_debit_wr"
    /\ LET f == frame[e] IN
       balance' = [balance EXCEPT ![f.from_token] = f.tmp - f.amount]
    /\ dirty' = MarkDirty(e)
    /\ pc' = [pc EXCEPT ![e] = "et_credit_rd"]
    /\ UNCHANGED <<apiVars, chatVars>>
    /\ UNCHANGED <<trade_history, active_strategy, auto_trading_active, stop_event,
                   auto_trading_thread, now, frame, last_trade_time, current_time,
                   wake, response, pre, stop_seen>>

\* `if to_token in self.balance` and the read of `+= received_amount`.
EtCreditRd(e) ==
    /\ Running
    /\ pc[e] = "et_credit_rd"
    /\ LET f == frame[e] IN
       frame' = [frame EXCEPT ![e] =
                    [f EXCEPT !.present = (f.to_token \in DOMAIN balance),
                              !.tmp = Get(balance, f.to_token)]]
    /\ pc' = [pc EXCEPT ![e] = "et_credit_wr"]
    /\ UNCHANGED <<apiVars, chatVars>>
    /\ UNCHANGED <<balance, trade_history, active_strategy, auto_trading_active,
                   stop_event, auto_trading_thread, now, last_trade_time,
                   current_time, wake, response, pre, dirty, stop_seen>>

\* EtCreditWr with the credit assigned, not added, whether or not there is an entry.
EtCreditWrOverwrite(e) ==
    /\ Running
    /\ pc[e] = "et_credit_wr"
    /\ balance' = (frame[e].to_token :> frame[e].received) @@ balance
    /\ dirty' = MarkDirty(e)
    /\ pc' = [pc EXCEPT ![e] = "et_id"]
    /\ UNCHANGED <<apiVars, chatVars>>
    /\ UNCHANGED <<trade_history, active_strategy, auto_trading_active, stop_event,
                   auto_trading_thread, now, frame, last_trade_time, current_time,
                   wake, response, pre, stop_seen>>

\* The write of the credit: `+=` on an entry found, a new entry otherwise.
EtCreditWr(e) ==
    /\ Running
    /\ pc[e] = "et_credit_wr"
    /\ LET f == frame[e]
           v == IF f.present THEN f.tmp + f.received ELSE f.received
       IN  balance' = (f.to_token :> v) @@ balance
    /\ dirty' = MarkDirty(e)
    /\ pc' = [pc EXCEPT ![e] = "et_id"]
    /\ UNCHANGED <<apiVars, chatVars>>
    /\ UNCHANGED <<trade_history, active_strategy, auto_trading_active, stop_event,
                   auto_trading_thread, now, frame, last_trade_time, current_time,
                   wake, response, pre, stop_seen>>

\* trade_id = f"TRADE-{len(self.trade_history) + 1}-{int(time.time())}"
EtId(e) ==
    /\ Running
    /\ pc[e] = "et_id"
    /\ frame' = [frame EXCEPT ![e].id = <<Len(trade_history) + 1, now>>]
    /\ pc' = [pc EXCEPT ![e] = "et_append"]
    /\ UNCHANGED <<apiVars, chatVars>>
    /\ UNCHANGED <<balance, trade_history, active_strategy, auto_trading_active,
                   stop_event, auto_trading_thread, now, last_trade_time,
                   current_time, wake, response, pre, dirty, stop_seen>>

TradeRecord(f) ==
    [id |-> f.id, from_token |-> f.from_token, to_token |-> f.to_token,
     amount |-> f.amount, received |-> f.received, price |-> f.price,
     timestamp |-> f.id[2], reason |-> f.reason, status |-> "executed"]

\* EtAppend with the record put in front of the history.
EtAppendFront(e) ==
    /\ Running
    /\ pc[e] = "et_append"
    /\ trade_history' = <<TradeRecord(frame[e])>> \o trade_history
    /\ dirty' = [MarkDirty(e) EXCEPT ![e] = FALSE]
    /\ pre' = [pre EXCEPT ![e] = <<>>]
    /\ frame' = [frame EXCEPT ![e] = NoFrame]
    /\ IF e = Chat
       THEN /\ pc' = [pc EXCEPT ![e] = "input"]
            /\ response' = "trade_ok"
            /\ last_trade_time' = last_trade_time
       ELSE /\ pc' = [pc EXCEPT ![e] = "l_alerts"]
            /\ last_trade_time' = [last_trade_time EXCEPT ![e] = current_time[e]]
            /\ response' = response
    /\ UNCHANGED <<apiVars, chatVars>>
    /\ UNCHANGED <<balance, active_strategy, auto_trading_active, stop_event,
                   auto_trading_thread, now, current_time, wake, stop_seen>>

\* self.trade_history.append(trade_record); return True, trade_record; and what
\* the caller does with the result: handle_trade reports the trade, the loop
\* sets last_trade_time = current_time.
EtAppend(e) ==
    /\ Running
    /\ pc[e] = "et_append"
    /\ trade_history' = Append(trade_history, TradeRecord(frame[e]))
    /\ dirty' = [MarkDirty(e) EXCEPT ![e] = FALSE]
    /\ pre' = [pre EXCEPT ![e] = <<>>]
    /\ frame' = [frame EXCEPT ![e] = NoFrame]
    /\ IF e = Chat
       THEN /\ pc' = [pc EXCEPT ![e] = "input"]
            /\ response' = "trade_ok"
            /\ last_trade_time' = last_trade_time
       ELSE /\ pc' = [pc EXCEPT ![e] = "l_alerts"]
            /\ last_trade_time' = [last_trade_time EXCEPT ![e] = current_time[e]]
            /\ response' = response
    /\ UNCHANGED <<apiVars, chatVars>>
    /\ UNCHANGED <<balance, active_strategy, auto_trading_active, stop_event,
                   auto_trading_thread, now, current_time, wake, stop_seen>>

execute_trade(e) ==
    \/ EtDebitRd(e)
    \/ EtDebitWr(e)
    \/ EtCreditRd(e)
    \/ EtCreditWr(e)
    \/ EtId(e)
    \/ EtAppend(e)

(***************************************************************************)
(* The chat thread: start_chat reads a line, parse_command names the       *)
(* command, the handler runs and its response is printed.  The actions     *)
(* below take the parsed command; the inputs are drawn from these sets.    *)
(***************************************************************************)
\* The amount text of a trade command: whether float() accepts it, and its value.
Amount(n) == [parses |-> TRUE, value |-> Tok(n)]
NotANumber == [parses |-> FALSE, value |-> 0]

\* Trade commands <<from_token, to_token, amount>> as handle_trade sees them
\* after .upper(); XYZ is no token.
ChatTrades ==
    {<<"USDC", "WETH", Amount(10000)>>,    \* a listed pair
     <<"USDC", "UNI", Amount(10000)>>,     \* no price, no ledger entry for UNI
     <<"USDC", "USDC", Amount(10000)>>,    \* the same token twice
     <<"WETH", "USDC", Amount(10000)>>,    \* more than the balance
     <<"UNI", "USDC", Amount(10000)>>,     \* no ledger entry for the source
     <<"WBTC", "USDC", Amount(5)>>,        \* more than the balance, and too small
     <<"USDC", "WETH", Amount(20000)>>,    \* more than the balance, and too large
     <<"XYZ", "USDC", Amount(10000)>>,
     <<"USDC", "XYZ", Amount(10000)>>,
     <<"USDC", "WETH", NotANumber>>}

\* The argument of a strategy command: None (no argument), a name, a non-name.
StrategyInputs == {None, "trend", "meanreversion", "random", "hodl"}

\* Commands that only read.
ReadOnlyCommands == {"help", "unknown"}

\* HandleTradeCheck without the balance check.
HandleTradeCheckNoBalance(bal, from_token, to_token, amount) ==
    IF from_token \notin TOKENS THEN "invalid_source"
    ELSE IF to_token \notin TOKENS THEN "invalid_target"
    ELSE IF ~amount.parses THEN "invalid_amount"
    ELSE IF amount.value < Tok(min_trade_amount) THEN "too_small"
    ELSE IF amount.value > Tok(max_trade_amount) THEN "too_large"
    ELSE "ok"

\* handle_trade up to the call of execute_trade: the first check that fails.
HandleTradeCheck(bal, from_token, to_token, amount) ==
    IF from_token \notin TOKENS THEN "invalid_source"
    ELSE IF to_token \notin TOKENS THEN "invalid_target"
    ELSE IF ~amount.parses THEN "invalid_amount"
    ELSE IF amount.value < Tok(min_trade_amount) THEN "too_small"
    ELSE IF amount.value > Tok(max_trade_amount) THEN "too_large"
    ELSE IF from_token \notin DOMAIN bal \/ bal[from_token] < amount.value
         THEN "insufficient"
    ELSE "ok"

handle_trade(from_token, to_token, amount) ==
    /\ pc[Chat] = "input"
    /\ LET check == HandleTradeCheck(balance, from_token, to_token, amount) IN
       IF check = "ok"
       THEN /\ TradesBegun < MaxTrades
            /\ frame' = [frame EXCEPT ![Chat] =
                    [NoFrame EXCEPT !.from_token = from_token,
                                    !.to_token = to_token,
                                    !.amount = amount.value,
                                    !.reason = "user"]]
            /\ pc' = [pc EXCEPT ![Chat] = "et_debit_rd"]
            /\ response' = response
       ELSE /\ response' = check
            /\ UNCHANGED <<frame, pc>>
    /\ UNCHANGED <<apiVars, chatVars>>
    /\ UNCHANGED <<balance, trade_history, active_strategy, auto_trading_active,
                   stop_event, auto_trading_thread, now, last_trade_time,
                   current_time, wake, pre, dirty, stop_seen>>

\* get_balance and get_portfolio read every entry of the ledger.
LedgerReaders == {"balance", "portfolio"}

get_balance(cmd) ==
    /\ pc[Chat] = "input"
    /\ response' = cmd
    /\ UNCHANGED <<apiVars, chatVars>>
    /\ UNCHANGED <<balance, trade_history, active_strategy, auto_trading_active,
                   stop_event, auto_trading_thread, now, pc, frame,
                   last_trade_time, current_time, wake, pre, dirty, stop_seen>>

show_help(cmd) ==
    /\ pc[Chat] = "input"
    /\ response' = cmd
    /\ UNCHANGED <<apiVars, chatVars>>
    /\ UNCHANGED <<balance, trade_history, active_strategy, auto_trading_active,
                   stop_event, auto_trading_thread, now, pc, frame,
                   last_trade_time, current_time, wake, pre, dirty, stop_seen>>

\* set_strategy taking any name, registered or not.
set_strategy_unvalidated(strategy_name) ==
    /\ pc[Chat] = "input"
    /\ IF strategy_name = None
       THEN /\ response' = "strategy_current"
            /\ active_strategy' = active_strategy
       ELSE /\ active_strategy' = strategy_name
            /\ response' = "strategy_set"
    /\ UNCHANGED <<apiVars, chatVars>>
    /\ UNCHANGED <<balance, trade_history, auto_trading_active, stop_event,
                   auto_trading_thread, now, pc, frame, last_trade_time,
                   current_time, wake, pre, dirty, stop_seen>>

set_strategy(strategy_name) ==
    /\ pc[Chat] = "input"
    /\ IF strategy_name = None
       THEN /\ response' = "strategy_current"
            /\ active_strategy' = active_strategy
       ELSE IF strategy_name \in strategies
            THEN /\ active_strategy' = strategy_name
                 /\ response' = "strategy_set"
            ELSE /\ response' = "strategy_invalid"
                 /\ active_strategy' = active_strategy
    /\ UNCHANGED <<apiVars, chatVars>>
    /\ UNCHANGED <<balance, trade_history, auto_trading_active, stop_event,
                   auto_trading_thread, now, pc, frame, last_trade_time,
                   current_time, wake, pre, dirty, stop_seen>>

\* A loop thread that has been started and has not returned.
Live(t) == pc[t] \notin {"unborn", "done"}

\* start_auto_trading without the test of auto_trading_active.
start_auto_trading_unguarded ==
    /\ pc[Chat] = "input"
    /\ IF active_strategy = None
       THEN /\ response' = "no_strategy"
            /\ UNCHANGED <<auto_trading_active, stop_event, auto_trading_thread, pc>>
       ELSE /\ auto_trading_thread < MaxLoops
            /\ auto_trading_active' = TRUE
            /\ stop_event' = FALSE
            /\ auto_trading_thread' = auto_trading_thread + 1
            /\ pc' = [pc EXCEPT ![auto_trading_thread + 1] = "l_start"]
            /\ response' = "started"
    /\ UNCHANGED <<apiVars, chatVars>>
    /\ UNCHANGED <<balance, trade_history, active_strategy, now, frame,
                   last_trade_time, current_time, wake, pre, dirty, stop_seen>>

start_auto_trading ==
    /\ pc[Chat] = "input"
    /\ IF active_strategy = None
       THEN /\ response' = "no_strategy"
            /\ UNCHANGED <<auto_trading_active, stop_event, auto_trading_thread, pc>>
       ELSE IF auto_trading_active
            THEN /\ response' = "already_running"
                 /\ UNCHANGED <<auto_trading_active, stop_event,
                                auto_trading_thread, pc>>
            ELSE /\ auto_trading_thread < MaxLoops
                 /\ auto_trading_active' = TRUE
                 /\ stop_event' = FALSE
                 /\ auto_trading_thread' = auto_trading_thread + 1
                 /\ pc' = [pc EXCEPT ![auto_trading_thread + 1] = "l_start"]
                 /\ response' = "started"
    /\ UNCHANGED <<apiVars, chatVars>>
    /\ UNCHANGED <<balance, trade_history, active_strategy, now, frame,
                   last_trade_time, current_time, wake, pre, dirty, stop_seen>>

\* The assignments of stop_auto_trading, and the loops the stop is meant for.
\* self.auto_trading_active = False; self.stop_event.set(); a live loop thread
\* that has not been stopped before is marked as stopped.
StopEffect ==
    /\ auto_trading_active' = FALSE
    /\ stop_event' = TRUE
    /\ stop_seen' = [t \in Loops |->
                        IF Live(t) /\ stop_seen[t] = "no" THEN "stopped"
                        ELSE stop_seen[t]]

stop_auto_trading ==
    /\ pc[Chat] = "input"
    /\ IF ~auto_trading_active
       THEN /\ response' = "not_running"
            /\ UNCHANGED <<auto_trading_active, stop_event, stop_seen>>
       ELSE /\ StopEffect
            /\ response' = "stopped"
    /\ UNCHANGED <<apiVars, chatVars>>
    /\ UNCHANGED <<balance, trade_history, active_strategy, auto_trading_thread,
                   now, pc, frame, last_trade_time, current_time, wake, pre, dirty>>

\* exit_bot calls stop_auto_trading; start_chat then leaves its loop and the
\* process ends.
exit_bot ==
    /\ pc[Chat] = "input"
    /\ IF ~auto_trading_active
       THEN UNCHANGED <<auto_trading_active, stop_event, stop_seen>>
       ELSE StopEffect
    /\ response' = "goodbye"
    /\ pc' = [pc EXCEPT ![Chat] = "exited"]
    /\ UNCHANGED <<apiVars, chatVars>>
    /\ UNCHANGED <<balance, trade_history, active_strategy, auto_trading_thread,
                   now, frame, last_trade_time, current_time, wake, pre, dirty>>

(***************************************************************************)
(* parse_command.  A text is a sequence of characters, each a string of    *)
(* length one; re.match anchors a pattern at the start of the text only.   *)
(***************************************************************************)
UpperCase == <<"A", "B", "C", "D", "E", "F", "G", "H", "I", "J", "K", "L", "M", "N", "O", "P", "Q", "R", "S", "T", "U", "V", "W", "X", "Y", "Z">>
LowerCase == <<"a", "b", "c", "d", "e", "f", "g", "h", "i", "j", "k", "l", "m", "n", "o", "p", "q", "r", "s", "t", "u", "v", "w", "x", "y", "z">>
Digits == {"0", "1", "2", "3", "4", "5", "6", "7", "8", "9"}

IsSpace(c) == c \in {" ", "\t"}                                    \* \s
IsWord(c) ==                                                        \* \w
    c \in Digits \/ c = "_" \/ \E i \in DOMAIN UpperCase : c \in {UpperCase[i], LowerCase[i]}
IsNumChar(c) == c \in Digits \/ c = "."                             \* [\d\.]

\* str.lower, str.upper, str.strip, str.startswith
lower(text) ==
    [k \in DOMAIN text |->
        IF \E i \in DOMAIN UpperCase : UpperCase[i] = text[k]
        THEN LowerCase[CHOOSE i \in DOMAIN UpperCase : UpperCase[i] = text[k]]
        ELSE text[k]]

upper(text) ==
    [k \in DOMAIN text |->
        IF \E i \in DOMAIN LowerCase : LowerCase[i] = text[k]
        THEN UpperCase[CHOOSE i \in DOMAIN LowerCase : LowerCase[i] = text[k]]
        ELSE text[k]]

strip(text) ==
    LET keep == {k \in DOMAIN text : ~IsSpace(text[k])} IN
    IF keep = {} THEN <<>>
    ELSE SubSeq(text, CHOOSE k \in keep : \A j \in keep : k <= j,
                      CHOOSE k \in keep : \A j \in keep : k >= j)

startswith(text, prefix) ==
    Len(text) >= Len(prefix) /\ SubSeq(text, 1, Len(prefix)) = prefix

\* The last position of the longest run of characters of a class that begins
\* at position i; i - 1 when there is none.  (A greedy `+` or `*`.)
RunEnd(text, i, Class(_)) ==
    IF i > Len(text) THEN i - 1
    ELSE CHOOSE j \in (i - 1)..Len(text) :
            /\ \A k \in i..j : Class(text[k])
            /\ j = Len(text) \/ ~Class(text[j + 1])

NoMatch == [ok |-> FALSE, groups |-> <<>>]
Match(groups) == [ok |-> TRUE, groups |-> groups]

\* The registered commands, in the order of the dictionary.
commands ==
    <<[name |-> "help", text |-> <<"h", "e", "l", "p">>],
     [name |-> "trade", text |-> <<"t", "r", "a", "d", "e">>],
     [name |-> "balance", text |-> <<"b", "a", "l", "a", "n", "c", "e">>],
     [name |-> "market", text |-> <<"m", "a", "r", "k", "e", "t">>],
     [name |-> "history", text |-> <<"h", "i", "s", "t", "o", "r", "y">>],
     [name |-> "strategy", text |-> <<"s", "t", "r", "a", "t", "e", "g", "y">>],
     [name |-> "price", text |-> <<"p", "r", "i", "c", "e">>],
     [name |-> "alerts", text |-> <<"a", "l", "e", "r", "t", "s">>],
     [name |-> "portfolio", text |-> <<"p", "o", "r", "t", "f", "o", "l", "i", "o">>],
     [name |-> "tokens", text |-> <<"t", "o", "k", "e", "n", "s">>],
     [name |-> "exit", text |-> <<"e", "x", "i", "t">>],
     [name |-> "settings", text |-> <<"s", "e", "t", "t", "i", "n", "g", "s">>],
     [name |-> "start", text |-> <<"s", "t", "a", "r", "t">>],
     [name |-> "stop", text |-> <<"s", "t", "o", "p">>],
     [name |-> "status", text |-> <<"s", "t", "a", "t", "u", "s">>]>>

CommandNames == {commands[i].name : i \in DOMAIN commands}
CommandText(name) == commands[CHOOSE i \in DOMAIN commands : commands[i].name = name].text

\* trade_match with an amount of digits only, `(\d+)`.
trade_match_digits(text) ==
    LET s1 == RunEnd(text, 6, IsSpace)
        g1 == RunEnd(text, s1 + 1, IsWord)
        s2 == RunEnd(text, g1 + 1, IsSpace)
        s3 == RunEnd(text, s2 + 3, IsSpace)
        g2 == RunEnd(text, s3 + 1, IsWord)
        s4 == RunEnd(text, g2 + 1, IsSpace)
        g3 == RunEnd(text, s4 + 1, LAMBDA c : c \in Digits)
    IN  IF /\ startswith(text, <<"t", "r", "a", "d", "e">>)
           /\ s1 >= 6 /\ g1 > s1 /\ s2 > g1
           /\ Len(text) >= s2 + 2 /\ SubSeq(text, s2 + 1, s2 + 2) = <<"t", "o">>
           /\ s3 >= s2 + 3 /\ g2 > s3 /\ s4 > g2 /\ g3 > s4
        THEN Match(<<SubSeq(text, s1 + 1, g1), SubSeq(text, s3 + 1, g2),
                     SubSeq(text, s4 + 1, g3)>>)
        ELSE NoMatch

\* re.match(r'trade\s+(\w+)\s+to\s+(\w+)\s+([\d\.]+)', text)
trade_match(text) ==
    LET s1 == RunEnd(text, 6, IsSpace)
        g1 == RunEnd(text, s1 + 1, IsWord)
        s2 == RunEnd(text, g1 + 1, IsSpace)
        s3 == RunEnd(text, s2 + 3, IsSpace)
        g2 == RunEnd(text, s3 + 1, IsWord)
        s4 == RunEnd(text, g2 + 1, IsSpace)
        g3 == RunEnd(text, s4 + 1, IsNumChar)
    IN  IF /\ startswith(text, <<"t", "r", "a", "d", "e">>)
           /\ s1 >= 6 /\ g1 > s1 /\ s2 > g1
           /\ Len(text) >= s2 + 2 /\ SubSeq(text, s2 + 1, s2 + 2) = <<"t", "o">>
           /\ s3 >= s2 + 3 /\ g2 > s3 /\ s4 > g2 /\ g3 > s4
        THEN Match(<<SubSeq(text, s1 + 1, g1), SubSeq(text, s3 + 1, g2),
                     SubSeq(text, s4 + 1, g3)>>)
        ELSE NoMatch

\* re.match(word + r'\s+(\w+_\w+)', text): the run of word characters after
\* the spaces, when it has an underscore that is neither first nor last.
pair_match(word, text) ==
    LET s1 == RunEnd(text, Len(word) + 1, IsSpace)
        g1 == RunEnd(text, s1 + 1, IsWord)
    IN  IF /\ startswith(text, word)
           /\ s1 >= Len(word) + 1
           /\ \E k \in (s1 + 2)..(g1 - 1) : text[k] = "_"
        THEN Match(<<SubSeq(text, s1 + 1, g1)>>)
        ELSE NoMatch

market_match(text) == pair_match(<<"m", "a", "r", "k", "e", "t">>, text)
price_match(text) == pair_match(<<"p", "r", "i", "c", "e">>, text)

\* re.match(r'strategy\s+(\w+)', text)
strategy_match(text) ==
    LET s1 == RunEnd(text, 9, IsSpace)
        g1 == RunEnd(text, s1 + 1, IsWord)
    IN  IF startswith(text, <<"s", "t", "r", "a", "t", "e", "g", "y">>) /\ s1 >= 9 /\ g1 > s1
        THEN Match(<<SubSeq(text, s1 + 1, g1)>>)
        ELSE NoMatch

AlertActions == <<<<"a", "d", "d">>, <<"r", "e", "m", "o", "v", "e">>, <<"l", "i", "s", "t">>>>

\* re.match(r'alerts\s+(add|remove|list)\s*(.*)', text)
alerts_match(text) ==
    LET s1 == RunEnd(text, 7, IsSpace)
        rest == SubSeq(text, s1 + 1, Len(text))
        found == {i \in DOMAIN AlertActions : startswith(rest, AlertActions[i])}
        action == AlertActions[CHOOSE i \in found : \A j \in found : i <= j]
        s2 == RunEnd(text, s1 + Len(action) + 1, IsSpace)
    IN  IF startswith(text, <<"a", "l", "e", "r", "t", "s">>) /\ s1 >= 7 /\ found # {}
        THEN Match(<<action, SubSeq(text, s2 + 1, Len(text))>>)
        ELSE NoMatch

\* simple_command matching a whole text only, `text == cmd`.
simple_command_exact(text) ==
    LET found == {i \in DOMAIN commands : text = commands[i].text} IN
    IF found = {} THEN "unknown"
    ELSE commands[CHOOSE i \in found : \A j \in found : i <= j].name

\* `for cmd in self.commands: if text.startswith(cmd): return (cmd, None)`
simple_command(text) ==
    LET found == {i \in DOMAIN commands : startswith(text, commands[i].text)} IN
    IF found = {} THEN "unknown"
    ELSE commands[CHOOSE i \in found : \A j \in found : i <= j].name

\* The result (command, params): params is a tuple of groups (shape "tuple"),
\* one string (shape "str", params[1]) or None (shape "none").
Parsed(command, shape, params) ==
    [command |-> command, shape |-> shape, params |-> params]

parse_command(raw) ==
    LET text == lower(strip(raw)) IN
    IF trade_match(text).ok
    THEN Parsed("trade", "tuple", trade_match(text).groups)
    ELSE IF market_match(text).ok
    THEN Parsed("market", "str", market_match(text).groups)
    ELSE IF strategy_match(text).ok
    THEN Parsed("strategy", "str", strategy_match(text).groups)
    ELSE IF price_match(text).ok
    THEN Parsed("price", "str", price_match(text).groups)
    ELSE IF alerts_match(text).ok
    THEN Parsed("alerts", "str",
                <<alerts_match(text).groups[1] \o <<" ">>
                  \o strip(alerts_match(text).groups[2])>>)
    ELSE IF simple_command(text) # "unknown"
    THEN Parsed(simple_command(text), "none", <<>>)
    ELSE Parsed("unknown", "str", <<text>>)

\* str.split(): the maximal runs of characters that are no whitespace.
RECURSIVE split(_)
split(text) ==
    LET t == strip(text)
        e == RunEnd(t, 1, LAMBDA c : ~IsSpace(c))
    IN  IF t = <<>> THEN <<>>
        ELSE <<SubSeq(t, 1, e)>> \o split(SubSeq(t, e + 1, Len(t)))

(***************************************************************************)
(* Lines for parse_command.                                                *)
(***************************************************************************)
Leads == {<<>>, <<" ">>}
Seps == {<<" ">>, <<" ", "\t">>}
Keywords == {<<"t", "r", "a", "d", "e">>, <<"T", "r", "a", "d", "e">>}
Symbols == {<<"u", "s", "d", "c">>, <<"W", "E", "T", "H">>, <<"X", "y", "z">>}
Numbers == {<<"1", "0", "0">>, <<"0", ".", "0", "5", "5">>, <<"1", ".", "2", ".", "3">>}
Pairs == {<<"w", "e", "t", "h", "_", "b", "t", "c">>, <<"U", "S", "D", "C", "_", "W", "E", "T", "H">>}
Prices == {<<"0", ".", "0", "5", "5">>, <<"a", "b", "c">>}

\* "trade <sym> to <sym> <number>"
TradeLine(lead, kw, sep, a, b, n) ==
    lead \o kw \o sep \o a \o sep \o <<"t", "o">> \o sep \o b \o sep \o n

TradeLines ==
    {TradeLine(lead, kw, sep, a, b, n) :
        lead \in Leads, kw \in Keywords, sep \in Seps, a \in Symbols,
        b \in Symbols, n \in Numbers}

\* "alerts add <pair> <price>"
AlertsAddLine(lead, sep, pair, target) ==
    lead \o <<"a", "l", "e", "r", "t", "s">> \o sep \o <<"a", "d", "d">> \o sep \o pair \o sep \o target

AlertsAddLines ==
    {AlertsAddLine(lead, sep, pair, target) :
        lead \in Leads, sep \in Seps, pair \in Pairs, target \in Prices}

OtherLines ==
    {<<"h", "e", "l", "p">>,
     <<"H", "E", "L", "P">>,
     <<"h", "e", "l", "p", " ", "m", "e">>,
     <<"h", "e", "l", "p", "m", "e">>,
     <<"b", "a", "l", "a", "n", "c", "e">>,
     <<"B", "a", "l", "a", "n", "c", "e", " ", "s", "h", "e", "e", "t">>,
     <<"m", "a", "r", "k", "e", "t">>,
     <<"m", "a", "r", "k", "e", "t", " ", "u", "s", "d", "c", "_", "w", "e", "t", "h">>,
     <<"m", "a", "r", "k", "e", "t", " ", "u", "s", "d", "c", "w", "e", "t", "h">>,
     <<"m", "a", "r", "k", "e", "t", " ", "_", "u", "s", "d", "c">>,
     <<"m", "a", "r", "k", "e", "t", " ", "u", "s", "d", "c", "_">>,
     <<"m", "a", "r", "k", "e", "t", " ", "a", "_", "b", "_", "c">>,
     <<"p", "r", "i", "c", "e", " ", "W", "E", "T", "H", "_", "B", "T", "C">>,
     <<"p", "r", "i", "c", "e">>,
     <<"p", "r", "i", "c", "e", " ", "l", "i", "s", "t">>,
     <<"s", "t", "r", "a", "t", "e", "g", "y", " ", "t", "r", "e", "n", "d">>,
     <<"s", "t", "r", "a", "t", "e", "g", "y">>,
     <<"s", "t", "r", "a", "t", "e", "g", "y", " ", " ", "R", "a", "n", "d", "o", "m">>,
     <<"s", "t", "r", "a", "t", "e", "g", "y", "-", "t", "r", "e", "n", "d">>,
     <<"h", "i", "s", "t", "o", "r", "y">>,
     <<"p", "o", "r", "t", "f", "o", "l", "i", "o">>,
     <<"t", "o", "k", "e", "n", "s">>,
     <<"e", "x", "i", "t">>,
     <<"e", "x", "i", "t", " ", "n", "o", "w">>,
     <<"s", "e", "t", "t", "i", "n", "g", "s">>,
     <<"s", "e", "t", "t", "i", "n", "g", "s", " ", "t", "r", "a", "d", "e", "_", "i", "n", "t", "e", "r", "v", "a", "l", " ", "5">>,
     <<"s", "t", "a", "r", "t">>,
     <<"s", "t", "o", "p">>,
     <<"s", "t", "a", "t", "u", "s">>,
     <<"s", "t", "a", "r", "t", "s">>,
     <<"s", "t">>,
     <<"h", "e", "l", "l", "o">>,
     <<"H", "e", "l", "l", "o", " ", "W", "o", "r", "l", "d">>,
     <<"b", "u", "y", " ", "w", "e", "t", "h">>,
     <<>>,
     <<" ", " ">>,
     <<" ", "x", " ">>,
     <<"t", "r", "a", "d", "e">>,
     <<"t", "r", "a", "d", "e", " ", "u", "s", "d", "c", " ", "w", "e", "t", "h", " ", "1", "0", "0">>,
     <<"t", "r", "a", "d", "e", " ", "u", "s", "d", "c", " ", "t", "o", " ", "w", "e", "t", "h">>,
     <<"t", "r", "a", "d", "e", " ", "u", "s", "d", "c", " ", "t", "o", " ", "w", "e", "t", "h", " ", "-", "5">>,
     <<"t", "r", "a", "d", "e", " ", "u", "s", "d", "c", " ", "t", "o", " ", "w", "e", "t", "h", " ", "a", "b", "c">>,
     <<"t", "r", "a", "d", "e", " ", "u", "s", "d", "c", " ", "t", "o", " ", "w", "e", "t", "h", " ", "1", "0", "0", "a", "b", "c">>,
     <<"t", "r", "a", "d", "e", "u", "s", "d", "c", " ", "t", "o", " ", "w", "e", "t", "h", " ", "5">>,
     <<"t", "r", "a", "d", "e", " ", "u", "s", "d", "c", " ", "t", "o", " ", " ", "w", "e", "t", "h", " ", "5", " ", "n", "o", "w">>,
     <<"t", "r", "a", "d", "e", " ", "u", "s", "d", "c", " ", "t", "o", " ", "w", "e", "t", "h", " ", ".">>,
     <<"a", "l", "e", "r", "t", "s">>,
     <<"a", "l", "e", "r", "t", "s", " ", "l", "i", "s", "t">>,
     <<"a", "l", "e", "r", "t", "s", " ", "l", "i", "s", "t", " ", "a", "l", "l">>,
     <<"a", "l", "e", "r", "t", "s", " ", "a", "d", "d">>,
     <<"a", "l", "e", "r", "t", "s", " ", "r", "e", "m", "o", "v", "e", " ", "a", "l", "e", "r", "t", "-", "1">>,
     <<"a", "l", "e", "r", "t", "s", " ", "f", "o", "o">>,
     <<"a", "l", "e", "r", "t", "s", "a", "d", "d", " ", "x">>,
     <<"a", "l", "e", "r", "t", "s", " ", "a", "d", "d", "x">>,
     <<"a", "l", "e", "r", "t", "s", " ", "r", "e", "m", "o", "v", "e", "A", "L", "E", "R", "T", "-", "1">>,
     <<"x", " ", "h", "e", "l", "p">>,
     <<"t", "o", "k", "e", "n", "s", "t", "r", "a", "d", "e">>,
     <<"p", "l", "e", "a", "s", "e", " ", "t", "r", "a", "d", "e", " ", "u", "s", "d", "c", " ", "t", "o", " ", "w", "e", "t", "h", " ", "1", "0", "0">>,
     <<"w", "h", "a", "t", " ", "i", "s", " ", "t", "h", "e", " ", "p", "r", "i", "c", "e">>}

ParseInputs == TradeLines \cup AlertsAddLines \cup OtherLines

\* One call of parse_command.
ParseLine(text) ==
    /\ user_input' = text
    /\ parsed' = parse_command(text)
    /\ UNCHANGED <<tcsVars, apiVars, user_state, last_alert_check, created, bot_pc,
                   evalVars, scanVars>>

(***************************************************************************)
(* float(), and the spelling of the names the handlers look up.            *)
(***************************************************************************)
DigitSeq == <<"0", "1", "2", "3", "4", "5", "6", "7", "8", "9">>
DigitValue(c) == (CHOOSE i \in DOMAIN DigitSeq : DigitSeq[i] = c) - 1

RECURSIVE NatOf(_)
NatOf(ds) ==
    IF ds = <<>> THEN 0
    ELSE NatOf(SubSeq(ds, 1, Len(ds) - 1)) * 10 + DigitValue(ds[Len(ds)])

RECURSIVE Pow10(_)
Pow10(k) == IF k = 0 THEN 1 ELSE 10 * Pow10(k - 1)

\* float(text) in units of 10^-places, for a text of an optional sign, digits
\* and dots; any other text among the inputs is no number (ValueError).
float(text, places) ==
    LET signed == text # <<>> /\ text[1] \in {"+", "-"}
        body == IF signed THEN SubSeq(text, 2, Len(text)) ELSE text
        dots == {k \in DOMAIN body : body[k] = "."}
        dot == IF dots = {} THEN Len(body) + 1 ELSE CHOOSE k \in dots : TRUE
        whole == SubSeq(body, 1, dot - 1)
        frac == SubSeq(body, dot + 1, Len(body))
        shown == [k \in 1..places |-> IF k <= Len(frac) THEN frac[k] ELSE "0"]
        magnitude == NatOf(whole) * Pow10(places) + NatOf(shown)
    IN  IF /\ \A k \in DOMAIN body : IsNumChar(body[k])
           /\ Cardinality(dots) <= 1
           /\ \E k \in DOMAIN body : body[k] \in Digits
        THEN [parses |-> TRUE,
              value |-> IF signed /\ text[1] = "-" THEN 0 - magnitude ELSE magnitude]
        ELSE [parses |-> FALSE, value |-> 0]

\* The names of the tokens and of the pairs of the market data, spelled out.
SymbolTable ==
    <<[name |-> "USDC", text |-> <<"U", "S", "D", "C">>],
     [name |-> "WETH", text |-> <<"W", "E", "T", "H">>],
     [name |-> "DAI", text |-> <<"D", "A", "I">>],
     [name |-> "WBTC", text |-> <<"W", "B", "T", "C">>],
     [name |-> "UNI", text |-> <<"U", "N", "I">>],
     [name |-> "LINK", text |-> <<"L", "I", "N", "K">>],
     [name |-> "AAVE", text |-> <<"A", "A", "V", "E">>],
     [name |-> "MATIC", text |-> <<"M", "A", "T", "I", "C">>],
     [name |-> "BTC", text |-> <<"B", "T", "C">>]>>

SymbolText(name) ==
    SymbolTable[CHOOSE i \in DOMAIN SymbolTable : SymbolTable[i].name = name].text

\* The name a text spells; XYZ, which is no token, for any other text.
SymbolName(text) ==
    IF \E i \in DOMAIN SymbolTable : SymbolTable[i].text = text
    THEN SymbolTable[CHOOSE i \in DOMAIN SymbolTable : SymbolTable[i].text = text].name
    ELSE "XYZ"

\* f"{a}_{b}", a key of self.market_data
PairText(key) == SymbolText(key[1]) \o <<"_">> \o SymbolText(key[2])

(***************************************************************************)
(* Price alerts: self.user_state[user_id]["alerts"].                       *)
(***************************************************************************)
MaxAlerts == 3    \* alerts ever created

alert_check_interval == 60

user_id == "user_001"

Alerts(us) == IF user_id \in DOMAIN us THEN us[user_id].alerts ELSE <<>>

WithAlerts(alerts) == (user_id :> [alerts |-> alerts])

\* f"ALERT-{n}"
AlertIdText(n) == <<"A", "L", "E", "R", "T", "-">> \o <<DigitSeq[n + 1]>>

RemoveAt(s, i) == SubSeq(s, 1, i - 1) \o SubSeq(s, i + 1, Len(s))

\* The argument of manage_alerts: <<>> is None or the empty string.
manage_alerts(action_params) ==
    /\ pc[Chat] = "input"
    /\ IF action_params = <<>>
       THEN /\ response' = "alerts_usage"
            /\ UNCHANGED <<user_state, created>>
       ELSE LET parts == split(action_params)
                action == IF parts = <<>> THEN <<>> ELSE parts[1]
                alerts == Alerts(user_state)
            IN  IF action = <<"a", "d", "d">> /\ Len(parts) >= 3
                THEN LET target_price == float(parts[3], 6) IN
                     IF target_price.parses
                     THEN /\ created < MaxAlerts
                          /\ user_state' = WithAlerts(Append(alerts,
                                 [id |-> Len(alerts) + 1,
                                  pair |-> upper(parts[2]),
                                  target_price |-> target_price.value,
                                  created |-> created + 1,
                                  triggered |-> FALSE]))
                          /\ created' = created + 1
                          /\ response' = "alert_added"
                     ELSE /\ user_state' = WithAlerts(alerts)
                          /\ created' = created
                          /\ response' = "invalid_price"
                ELSE IF action = <<"r", "e", "m", "o", "v", "e">> /\ Len(parts) >= 2
                THEN LET hits == {i \in DOMAIN alerts :
                                     AlertIdText(alerts[i].id) = parts[2]}
                     IN  /\ created' = created
                         /\ IF hits # {}
                            THEN /\ user_state' = WithAlerts(RemoveAt(alerts,
                                        CHOOSE i \in hits : \A j \in hits : i <= j))
                                 /\ response' = "alert_removed"
                            ELSE /\ user_state' = WithAlerts(alerts)
                                 /\ response' = "alert_not_found"
                ELSE /\ user_state' = WithAlerts(alerts)
                     /\ created' = created
                     /\ response' = IF action # <<"l", "i", "s", "t">> THEN "alerts_invalid"
                                    ELSE IF alerts = <<>> THEN "alerts_none"
                                    ELSE "alerts_list"
    /\ UNCHANGED <<tcsStateVars, apiVars, last_alert_check, bot_pc, user_input, parsed,
                   evalVars, scanVars>>

\* check_alerts flagging every alert that is due, without the `return` in the
\* loop.
check_alerts_all(us) ==
    LET alerts == Alerts(us)
        due == {i \in DOMAIN alerts :
                   /\ ~alerts[i].triggered
                   /\ \E key \in DOMAIN market_data :
                        /\ PairText(key) = alerts[i].pair
                        /\ market_data[key].price >= alerts[i].target_price}
    IN  IF due = {}
        THEN [user_state |-> us, message |-> None]
        ELSE [user_state |-> WithAlerts([i \in DOMAIN alerts |->
                                 IF i \in due THEN [alerts[i] EXCEPT !.triggered = TRUE]
                                 ELSE alerts[i]]),
              message |-> "alert_triggered"]

\* check_alerts taking a triggered alert off the list.
check_alerts_removing(us) ==
    LET alerts == Alerts(us)
        due == {i \in DOMAIN alerts :
                   /\ ~alerts[i].triggered
                   /\ \E key \in DOMAIN market_data :
                        /\ PairText(key) = alerts[i].pair
                        /\ market_data[key].price >= alerts[i].target_price}
        first == CHOOSE i \in due : \A j \in due : i <= j
    IN  IF due = {}
        THEN [user_state |-> us, message |-> None]
        ELSE [user_state |-> WithAlerts(RemoveAt(alerts, first)),
              message |-> "alert_triggered"]

\* check_alerts: the first alert that is not triggered and whose pair has a
\* price at or above the target is flagged, and reported.
check_alerts(us) ==
    LET alerts == Alerts(us)
        due == {i \in DOMAIN alerts :
                   /\ ~alerts[i].triggered
                   /\ \E key \in DOMAIN market_data :
                        /\ PairText(key) = alerts[i].pair
                        /\ market_data[key].price >= alerts[i].target_price}
        first == CHOOSE i \in due : \A j \in due : i <= j
    IN  IF due = {}
        THEN [user_state |-> us, message |-> None]
        ELSE [user_state |-> WithAlerts([alerts EXCEPT ![first].triggered = TRUE]),
              message |-> "alert_triggered"]

\* The top of start_chat's loop: the alerts are checked when
\* alert_check_interval seconds have passed since the last check.
chat_check_alerts ==
    /\ pc[Chat] = "input"
    /\ now - last_alert_check > alert_check_interval
    /\ user_state' = check_alerts(user_state).user_state
    /\ response' = IF check_alerts(user_state).message = None THEN response
                   ELSE "alert_triggered"
    /\ last_alert_check' = now
    /\ UNCHANGED <<tcsStateVars, apiVars, created, bot_pc, user_input, parsed,
                   evalVars, scanVars>>

(***************************************************************************)
(* start_chat of TradingChatSystem: one line read, parsed and dispatched.  *)
(***************************************************************************)
StrategyTable ==
    <<[name |-> "trend", text |-> <<"t", "r", "e", "n", "d">>],
     [name |-> "meanreversion", text |-> <<"m", "e", "a", "n", "r", "e", "v", "e", "r", "s", "i", "o", "n">>],
     [name |-> "arbitrage", text |-> <<"a", "r", "b", "i", "t", "r", "a", "g", "e">>],
     [name |-> "random", text |-> <<"r", "a", "n", "d", "o", "m">>]>>

\* The strategy a text names; hodl, which is no strategy, for any other text.
StrategyName(text) ==
    IF \E i \in DOMAIN StrategyTable : StrategyTable[i].text = text
    THEN StrategyTable[CHOOSE i \in DOMAIN StrategyTable : StrategyTable[i].text = text].name
    ELSE "hodl"

\* The handlers that read and answer: get_market_data, get_trade_history,
\* get_price, list_tokens, manage_settings, get_system_status; and the format
\* error of handle_trade.
read_command(cmd) ==
    /\ pc[Chat] = "input"
    /\ response' = cmd
    /\ UNCHANGED <<tcsStateVars, apiVars, chatVars>>

\* Ctrl-C at the prompt: the loop of start_chat is left.
keyboard_interrupt ==
    /\ pc[Chat] = "input"
    /\ pc' = [pc EXCEPT ![Chat] = "exited"]
    /\ response' = "interrupted"
    /\ UNCHANGED <<apiVars, chatVars>>
    /\ UNCHANGED <<balance, trade_history, active_strategy, auto_trading_active,
                   stop_event, auto_trading_thread, now, frame, last_trade_time,
                   current_time, wake, pre, dirty, stop_seen>>

\* The lines typed to TradingChatSystem.
ChatLines ==
    {<<"t", "r", "a", "d", "e", " ", "u", "s", "d", "c", " ", "t", "o", " ", "w", "e", "t", "h", " ", "1", "0", "0">>,
     <<"T", "r", "a", "d", "e", " ", "U", "S", "D", "C", " ", "t", "o", " ", "U", "N", "I", " ", "1", "0", "0", "0", "0">>,
     <<"t", "r", "a", "d", "e", " ", "w", "e", "t", "h", " ", "t", "o", " ", "u", "s", "d", "c", " ", "1", "0">>,
     <<"t", "r", "a", "d", "e", " ", "x", "y", "z", " ", "t", "o", " ", "u", "s", "d", "c", " ", "1", "0", "0">>,
     <<"t", "r", "a", "d", "e", " ", "u", "s", "d", "c", " ", "t", "o", " ", "w", "e", "t", "h", " ", "1", ".", "2", ".", "3">>,
     <<"t", "r", "a", "d", "e", " ", "u", "s", "d", "c", " ", "t", "o", " ", "w", "e", "t", "h", " ", "5">>,
     <<"t", "r", "a", "d", "e">>,
     <<"b", "a", "l", "a", "n", "c", "e">>,
     <<"p", "o", "r", "t", "f", "o", "l", "i", "o">>,
     <<"h", "e", "l", "p">>,
     <<"s", "t", "r", "a", "t", "e", "g", "y", " ", "t", "r", "e", "n", "d">>,
     <<"s", "t", "r", "a", "t", "e", "g", "y", " ", "h", "o", "d", "l">>,
     <<"s", "t", "r", "a", "t", "e", "g", "y">>,
     <<"a", "l", "e", "r", "t", "s", " ", "a", "d", "d", " ", "w", "e", "t", "h", "_", "b", "t", "c", " ", "0", ".", "0", "5">>,
     <<"a", "l", "e", "r", "t", "s", " ", "r", "e", "m", "o", "v", "e", " ", "A", "L", "E", "R", "T", "-", "1">>,
     <<"a", "l", "e", "r", "t", "s", " ", "l", "i", "s", "t">>,
     <<"a", "l", "e", "r", "t", "s">>,
     <<"m", "a", "r", "k", "e", "t", " ", "u", "s", "d", "c", "_", "w", "e", "t", "h">>,
     <<"p", "r", "i", "c", "e">>,
     <<"h", "i", "s", "t", "o", "r", "y">>,
     <<"s", "t", "a", "t", "u", "s">>,
     <<"s", "t", "a", "r", "t">>,
     <<"s", "t", "o", "p">>,
     <<"e", "x", "i", "t">>,
     <<"h", "e", "l", "l", "o">>,
     <<>>,
     <<" ">>}

\* The lines typed to RecallChatBot: trade commands, commands that read, exit.
BotLines ==
    {<<"t", "r", "a", "d", "e", " ", "u", "s", "d", "c", " ", "t", "o", " ", "w", "e", "t", "h", " ", "1", "0", "0">>,
     <<"t", "r", "a", "d", "e", " ", "w", "e", "t", "h", " ", "t", "o", " ", "u", "s", "d", "c", " ", "1", "0">>,
     <<"t", "r", "a", "d", "e", " ", "u", "s", "d", "c", " ", "t", "o", " ", "w", "e", "t", "h", " ", "5">>,
     <<"t", "r", "a", "d", "e", " ", "u", "s", "d", "c", " ", "t", "o", " ", "w", "e", "t", "h", " ", "1", ".", "2", ".", "3">>,
     <<"t", "r", "a", "d", "e">>,
     <<"b", "a", "l", "a", "n", "c", "e">>,
     <<"h", "e", "l", "p">>,
     <<"s", "t", "a", "r", "t">>,
     <<"e", "x", "i", "t">>,
     <<"h", "e", "l", "l", "o">>,
     <<>>}

\* What start_chat computes from one line before it dispatches.
ReadLine(text) ==
    [blank |-> strip(text) = <<>>, p |-> parse_command(text)]

\* ReadLine of the lines typed, computed once.
ChatLineTable == [text \in ChatLines |-> ReadLine(text)]

\* The values a handler is called with are computed once, before the call.
start_chat(text) ==
    \E line \in {IF text \in ChatLines THEN ChatLineTable[text] ELSE ReadLine(text)} :
    \E p \in {line.p} :
    IF line.blank
    THEN pc[Chat] = "input" /\ UNCHANGED vars                 \* `continue`
    ELSE IF p.command = "trade"
    THEN IF p.shape = "tuple"
         THEN \E from_token \in {SymbolName(upper(p.params[1]))},
                 to_token \in {SymbolName(upper(p.params[2]))},
                 amount \in {float(p.params[3], 3)} :
                 handle_trade(from_token, to_token, amount)
         ELSE read_command("format_error")
    ELSE IF p.command \in LedgerReaders THEN get_balance(p.command)
    ELSE IF p.command = "help" THEN show_help("help")
    ELSE IF p.command = "strategy"
    THEN \E strategy_name \in {IF p.shape = "str" THEN StrategyName(lower(p.params[1]))
                               ELSE None} :
            set_strategy(strategy_name)
    ELSE IF p.command = "alerts"
    THEN \E action_params \in {IF p.shape = "str" THEN p.params[1] ELSE <<>>} :
            manage_alerts(action_params)
    ELSE IF p.command = "start" THEN start_auto_trading
    ELSE IF p.command = "stop" THEN stop_auto_trading
    ELSE IF p.command = "exit" THEN exit_bot
    ELSE IF p.command = "unknown" THEN show_help("unknown")
    ELSE read_command(p.command)

(***************************************************************************)
(* auto_trading_loop, run by every thread start_auto_trading has spawned.  *)
(***************************************************************************)
\* The draws of random_strategy: from_token, to_token (another token), uniform.
RandomDraws ==
    {<<"USDC", "WETH", Tok(10)>>, <<"WETH", "USDC", Tok(10)>>}

\* last_trade_time = time.time()
LoopStart(t) ==
    /\ Running
    /\ pc[t] = "l_start"
    /\ last_trade_time' = [last_trade_time EXCEPT ![t] = now]
    /\ pc' = [pc EXCEPT ![t] = "l_cond"]
    /\ UNCHANGED <<apiVars, chatVars>>
    /\ UNCHANGED <<balance, trade_history, active_strategy, auto_trading_active,
                   stop_event, auto_trading_thread, now, frame, current_time,
                   wake, response, pre, dirty, stop_seen>>

\* LoopCond of a loop that tests neither the flag nor the event, `while True`.
LoopCondUnconditional(t) ==
    /\ Running
    /\ pc[t] = "l_cond"
    /\ pc' = [pc EXCEPT ![t] = "l_time"]
    /\ stop_seen' = [stop_seen EXCEPT ![t] = IF @ = "stopped" THEN "survived" ELSE @]
    /\ UNCHANGED <<apiVars, chatVars>>
    /\ UNCHANGED <<balance, trade_history, active_strategy, auto_trading_active,
                   stop_event, auto_trading_thread, now, frame, last_trade_time,
                   current_time, wake, response, pre, dirty>>

\* while self.auto_trading_active and not self.stop_event.is_set()
LoopCond(t) ==
    /\ Running
    /\ pc[t] = "l_cond"
    /\ IF auto_trading_active /\ ~stop_event
       THEN /\ pc' = [pc EXCEPT ![t] = "l_time"]
            /\ stop_seen' = [stop_seen EXCEPT ![t] =
                                IF @ = "stopped" THEN "survived" ELSE @]
       ELSE /\ pc' = [pc EXCEPT ![t] = "done"]
            /\ stop_seen' = stop_seen
    /\ UNCHANGED <<apiVars, chatVars>>
    /\ UNCHANGED <<balance, trade_history, active_strategy, auto_trading_active,
                   stop_event, auto_trading_thread, now, frame, last_trade_time,
                   current_time, wake, response, pre, dirty>>

\* LoopTime with `>=` for the `>` of the interval test.
LoopTimeInclusive(t) ==
    /\ Running
    /\ pc[t] = "l_time"
    /\ current_time' = [current_time EXCEPT ![t] = now]
    /\ pc' = [pc EXCEPT ![t] =
                IF now - last_trade_time[t] >= trade_interval
                THEN "l_decide" ELSE "l_alerts"]
    /\ UNCHANGED <<apiVars, chatVars>>
    /\ UNCHANGED <<balance, trade_history, active_strategy, auto_trading_active,
                   stop_event, auto_trading_thread, now, frame, last_trade_time,
                   wake, response, pre, dirty, stop_seen>>

\* current_time = time.time(); is it time to trade?
LoopTime(t) ==
    /\ Running
    /\ pc[t] = "l_time"
    /\ current_time' = [current_time EXCEPT ![t] = now]
    /\ pc' = [pc EXCEPT ![t] =
                IF now - last_trade_time[t] > trade_interval
                THEN "l_decide" ELSE "l_alerts"]
    /\ UNCHANGED <<apiVars, chatVars>>
    /\ UNCHANGED <<balance, trade_history, active_strategy, auto_trading_active,
                   stop_event, auto_trading_thread, now, frame, last_trade_time,
                   wake, response, pre, dirty, stop_seen>>

\* trade_decision = self.generate_trade_decision(); a tuple is true whatever
\* its amount.  The field `by` of the frame remembers the strategy that
\* generate_trade_decision dispatched to; no code reads it.
LoopDecide(t, rnd) ==
    /\ Running
    /\ pc[t] = "l_decide"
    /\ LET trade_decision ==
               generate_trade_decision(active_strategy, market_data, balance, rnd)
       IN  IF trade_decision = NoDecision
           THEN /\ pc' = [pc EXCEPT ![t] = "l_alerts"]
                /\ frame' = frame
           ELSE /\ TradesBegun < MaxTrades
                /\ pc' = [pc EXCEPT ![t] = "l_reason"]
                /\ frame' = [frame EXCEPT ![t] =
                        [NoFrame EXCEPT !.from_token = trade_decision[1],
                                        !.to_token = trade_decision[2],
                                        !.amount = trade_decision[3],
                                        !.by = active_strategy]]
    /\ UNCHANGED <<apiVars, chatVars>>
    /\ UNCHANGED <<balance, trade_history, active_strategy, auto_trading_active,
                   stop_event, auto_trading_thread, now, last_trade_time,
                   current_time, wake, response, pre, dirty, stop_seen>>

\* reason = f"Auto-trade: {self.strategies[self.active_strategy]} strategy",
\* then the call of execute_trade.
LoopReason(t) ==
    /\ Running
    /\ pc[t] = "l_reason"
    /\ frame' = [frame EXCEPT ![t].reason = active_strategy]
    /\ pc' = [pc EXCEPT ![t] = "et_debit_rd"]
    /\ UNCHANGED <<apiVars, chatVars>>
    /\ UNCHANGED <<balance, trade_history, active_strategy, auto_trading_active,
                   stop_event, auto_trading_thread, now, last_trade_time,
                   current_time, wake, response, pre, dirty, stop_seen>>

\* alert_msg = self.check_alerts(), then time.sleep(5) begins.
LoopAlerts(t) ==
    /\ Running
    /\ pc[t] = "l_alerts"
    /\ wake' = [wake EXCEPT ![t] = now + poll_sleep]
    /\ current_time' = [current_time EXCEPT ![t] = 0]
    /\ pc' = [pc EXCEPT ![t] = "l_sleep"]
    /\ user_state' = check_alerts(user_state).user_state
    /\ UNCHANGED <<apiVars, last_alert_check, created, bot_pc, user_input, parsed,
                   evalVars, scanVars>>
    /\ UNCHANGED <<balance, trade_history, active_strategy, auto_trading_active,
                   stop_event, auto_trading_thread, now, frame, last_trade_time,
                   response, pre, dirty, stop_seen>>

\* time.sleep returns.
LoopSleep(t) ==
    /\ Running
    /\ pc[t] = "l_sleep"
    /\ now >= wake[t]
    /\ wake' = [wake EXCEPT ![t] = 0]
    /\ pc' = [pc EXCEPT ![t] = "l_cond"]
    /\ UNCHANGED <<apiVars, chatVars>>
    /\ UNCHANGED <<balance, trade_history, active_strategy, auto_trading_active,
                   stop_event, auto_trading_thread, now, frame, last_trade_time,
                   current_time, response, pre, dirty, stop_seen>>

auto_trading_loop(t) ==
    \/ LoopStart(t)
    \/ LoopCond(t)
    \/ LoopTime(t)
    \/ \E rnd \in RandomDraws : LoopDecide(t, rnd)
    \/ LoopReason(t)
    \/ LoopAlerts(t)
    \/ LoopSleep(t)

(***************************************************************************)
(* The clock.                                                              *)
(***************************************************************************)
ClockSteps == {trade_interval + 1}

Ticks == now \div (trade_interval + 1)

Tick(d) ==
    /\ Running
    /\ Ticks < MaxTicks
    /\ now' = now + d
    /\ UNCHANGED <<apiVars, chatVars>>
    /\ UNCHANGED <<balance, trade_history, active_strategy, auto_trading_active,
                   stop_event, auto_trading_thread, pc, frame, last_trade_time,
                   current_time, wake, response, pre, dirty, stop_seen>>

(***************************************************************************)
(* The trade endpoint, as the API-backed variants see one POST: a 200 with *)
(* a JSON body, a 200 whose body is no JSON, another status below 400, a   *)
(* status of 400 or more, or an exception of requests.post.                *)
(***************************************************************************)
ApiOutcomes == {"200", "200_bad_json", "202", "500", "exception"}

\* A response that is not a 200, or a transport error.
ApiFailures == {"202", "500", "exception"}

\* The "id" of the JSON body; None when the body has no id.
ApiIds == {"T1", "T2", None}

\* An answer <<outcome, id>>: the id is read from the JSON body of a 200 only.
ApiAnswers ==
    {<<"200", id>> : id \in ApiIds} \cup {<<a, None>> : a \in ApiOutcomes \ {"200"}}

MaxApiCalls == 2    \* requests ever posted

(***************************************************************************)
(* RecallChatBot (chat.py).                                                *)
(***************************************************************************)
bot_initial_balance ==
    ("USDC" :> 12450750) @@ ("WETH" :> 5320) @@ ("DAI" :> 8200500) @@ ("WBTC" :> 250)

\* self.simulated_prices, in millionths
simulated_prices ==
    (<<"USDC", "WETH">> :> 480) @@ (<<"WETH", "BTC">> :> 53000)
    @@ (<<"USDC", "DAI">> :> 999000) @@ (<<"WETH", "UNI">> :> 15200000)
    @@ (<<"USDC", "WBTC">> :> 32)

BotTrades ==
    {<<"USDC", "WETH", Amount(100)>>,
     <<"WETH", "USDC", Amount(10)>>,       \* more than the simulated balance
     <<"UNI", "USDC", Amount(10)>>,        \* no entry for the source
     <<"USDC", "WETH", Amount(5)>>,
     <<"USDC", "WETH", Amount(20000)>>,
     <<"XYZ", "USDC", Amount(100)>>,
     <<"USDC", "XYZ", Amount(100)>>,
     <<"USDC", "WETH", NotANumber>>}

\* handle_trade up to the call of execute_trade: no balance check here.
BotHandleTradeCheck(from_token, to_token, amount) ==
    IF from_token \notin TOKENS THEN "invalid_source"
    ELSE IF to_token \notin TOKENS THEN "invalid_target"
    ELSE IF ~amount.parses THEN "invalid_amount"
    ELSE IF amount.value < Tok(min_trade_amount) THEN "too_small"
    ELSE IF amount.value > Tok(max_trade_amount) THEN "too_large"
    ELSE "ok"

update_simulated_balance(bal, from_token, to_token, amount) ==
    LET debited ==
            IF from_token \in DOMAIN bal
            THEN [bal EXCEPT ![from_token] =
                     IF @ - amount < 0 THEN 0 ELSE @ - amount]
            ELSE bal
        price == IF <<from_token, to_token>> \in DOMAIN simulated_prices
                 THEN Ratio(simulated_prices[<<from_token, to_token>>], 1000000)
                 ELSE <<1, 1>>
        received_amount == Received(amount, price)
    IN  (to_token :> Get(debited, to_token) + received_amount) @@ debited

\* What handle_trade makes of execute_trade's result.  A requests.Response is
\* false when its status is 400 or more; response.json() raises on a body that
\* is no JSON, and start_chat reports the exception.
\* BotTradeResponse with the exception of response.json() not caught.
BotTradeResponseUncaught(api) ==
    IF api = "200" THEN "trade_ok"
    ELSE IF api = "200_bad_json" THEN "uncaught_exception"
    ELSE IF api = "202" THEN "trade_failed_text"
    ELSE "trade_failed_no_response"

\* What the session prints after the endpoint answered; an answer of status 200
\* whose body is no JSON raises in handle_trade and is caught by start_chat.
BotTradeResponse(api) ==
    IF api = "200" THEN "trade_ok"
    ELSE IF api = "200_bad_json" THEN "processing_error"
    ELSE IF api = "202" THEN "trade_failed_text"
    ELSE "trade_failed_no_response"

\* BotHandleTrade updating the balance on any response that is true
\* (`if response:` in place of `if response and response.status_code == 200:`).
BotHandleTradeAnyStatus(from_token, to_token, amount, api) ==
    /\ LET check == BotHandleTradeCheck(from_token, to_token, amount) IN
       IF check # "ok"
       THEN /\ bot_response' = check
            /\ UNCHANGED <<simulated_balance, api_calls, api_last>>
       ELSE /\ api_calls < MaxApiCalls
            /\ api_calls' = api_calls + 1
            /\ api_last' = api
            /\ bot_response' = IF api = "202" THEN "trade_ok" ELSE BotTradeResponse(api)
            /\ simulated_balance' =
                   IF api \in {"200", "202"}
                   THEN update_simulated_balance(simulated_balance, from_token,
                                                 to_token, amount.value)
                   ELSE simulated_balance
    /\ UNCHANGED <<agent_balance, agent_history, agent_result>>
    /\ UNCHANGED <<tcsVars, chatVars>>

BotHandleTrade(from_token, to_token, amount, api) ==
    /\ LET check == BotHandleTradeCheck(from_token, to_token, amount) IN
       IF check # "ok"
       THEN /\ bot_response' = check
            /\ UNCHANGED <<simulated_balance, api_calls, api_last>>
       ELSE /\ api_calls < MaxApiCalls
            /\ api_calls' = api_calls + 1
            /\ api_last' = api
            /\ bot_response' = BotTradeResponse(api)
            /\ simulated_balance' =
                   IF api = "200"
                   THEN update_simulated_balance(simulated_balance, from_token,
                                                 to_token, amount.value)
                   ELSE simulated_balance
    /\ UNCHANGED <<agent_balance, agent_history, agent_result>>
    /\ UNCHANGED <<tcsVars, chatVars>>

(***************************************************************************)
(* start_chat of RecallChatBot: the same parser over a shorter registry.   *)
(***************************************************************************)
bot_commands == SubSeq(commands, 1, 12)

bot_simple_command(text) ==
    LET found == {i \in DOMAIN bot_commands : startswith(text, bot_commands[i].text)} IN
    IF found = {} THEN "unknown"
    ELSE bot_commands[CHOOSE i \in found : \A j \in found : i <= j].name

bot_parse_command(raw) ==
    LET text == lower(strip(raw))
        p == parse_command(raw)
    IN  IF p.shape = "none" \/ p.command = "unknown"
        THEN IF bot_simple_command(text) # "unknown"
             THEN Parsed(bot_simple_command(text), "none", <<>>)
             ELSE Parsed("unknown", "str", <<text>>)
        ELSE p

\* exit_bot
bot_exit_bot ==
    /\ bot_pc' = "exited"
    /\ bot_response' = "goodbye"
    /\ UNCHANGED <<simulated_balance, agent_balance, agent_history, agent_result,
                   api_calls, api_last>>
    /\ UNCHANGED <<tcsVars, user_state, last_alert_check, created, user_input, parsed,
                   evalVars, scanVars>>

\* The handlers that read and answer, and the answer to an unknown command.
bot_read_command(cmd) ==
    /\ bot_response' = cmd
    /\ UNCHANGED <<simulated_balance, agent_balance, agent_history, agent_result,
                   api_calls, api_last>>
    /\ UNCHANGED <<tcsVars, chatVars>>

\* Ctrl-C at the prompt.
bot_keyboard_interrupt ==
    /\ bot_pc = "input"
    /\ bot_pc' = "exited"
    /\ bot_response' = "interrupted"
    /\ UNCHANGED <<simulated_balance, agent_balance, agent_history, agent_result,
                   api_calls, api_last>>
    /\ UNCHANGED <<tcsVars, user_state, last_alert_check, created, user_input, parsed,
                   evalVars, scanVars>>

\* One line read, parsed and dispatched; api is the endpoint's answer, should
\* the handler post a trade.
\* What start_chat computes from one line before it dispatches.
BotReadLine(text) ==
    [blank |-> strip(text) = <<>>, p |-> bot_parse_command(text)]

\* BotReadLine of the lines typed, computed once.
BotLineTable == [text \in BotLines |-> BotReadLine(text)]

bot_start_chat(text, api) ==
    \E line \in {IF text \in BotLines THEN BotLineTable[text] ELSE BotReadLine(text)} :
    \E p \in {line.p} :
    /\ bot_pc = "input"
    /\ IF line.blank
       THEN UNCHANGED vars
       ELSE IF p.command = "trade"
       THEN IF p.shape = "tuple"
            THEN \E from_token \in {SymbolName(upper(p.params[1]))},
                    to_token \in {SymbolName(upper(p.params[2]))},
                    amount \in {float(p.params[3], 3)} :
                    BotHandleTrade(from_token, to_token, amount, api)
            ELSE bot_read_command("format_error")
       ELSE IF p.command = "exit" THEN bot_exit_bot
       ELSE bot_read_command(p.command)

(***************************************************************************)
(* RecallTradingAgent (trading_agent.py).                                  *)
(***************************************************************************)
AGENT_TOKENS == {"USDC", "WETH", "DAI", "WBTC", "USDT", "UNI", "LINK"}

agent_max_trade_amount == 1000

agent_initial_balance ==
    ("USDC" :> Tok(10000)) @@ ("WETH" :> Tok(5)) @@ ("DAI" :> Tok(5000))

\* get_market_data("USDC_WETH"): a fixed answer.
agent_market_data ==
    (<<"USDC", "WETH">> :> [price |-> 480, change |-> 23, high |-> 500, low |-> 460])

\* RecallTradingAgent.trend_following_strategy
agent_trend_following_strategy(md, bal) ==
    LET pair == <<"USDC", "WETH">> IN
    IF md[pair].change > 20
    THEN <<"USDC", "WETH", Min(Tok(100), RiskShare(Get(bal, "USDC")))>>
    ELSE IF md[pair].change < -10
         THEN <<"WETH", "USDC", Min(100, RiskShare(Get(bal, "WETH")))>>
         ELSE NoDecision

AgentTrades ==
    {<<"USDC", "WETH", Tok(100)>>,
     <<"DAI", "USDC", Tok(1000)>>,
     <<"WETH", "USDC", Tok(10)>>,          \* more than the balance
     <<"UNI", "USDC", Tok(10)>>,           \* no entry for the source
     <<"USDC", "WETH", Tok(5)>>,
     <<"USDC", "WETH", Tok(2000)>>,
     <<"XYZ", "USDC", Tok(100)>>,
     <<"USDC", "XYZ", Tok(100)>>}

\* execute_trade before the request: the first check that fails.
AgentTradeCheck(bal, from_token, to_token, amount) ==
    IF from_token \notin AGENT_TOKENS THEN "invalid_source"
    ELSE IF to_token \notin AGENT_TOKENS THEN "invalid_target"
    ELSE IF amount < Tok(min_trade_amount) THEN "too_small"
    ELSE IF amount > Tok(agent_max_trade_amount) THEN "too_large"
    ELSE IF Get(bal, from_token) < amount THEN "insufficient"
    ELSE "ok"

update_balance_after_trade(bal, from_token, to_token, amount) ==
    LET price == IF from_token = "USDC" /\ to_token = "WETH"
                 THEN <<1, 2000>> ELSE <<1, 1>>
        left == Get(bal, from_token) - amount
        debited == (from_token :> IF left < 0 THEN 0 ELSE left) @@ bal
    IN  (to_token :> Get(debited, to_token) + Received(amount, price)) @@ debited

record_trade(history, from_token, to_token, amount, id) ==
    Append(history,
           [id |-> IF id = None THEN <<"local", now>> ELSE <<id, 0>>,
            from_token |-> from_token, to_token |-> to_token, amount |-> amount,
            timestamp |-> now, reason |-> "", status |-> "executed"])

\* execute_trade: every failure returns None, a 200 returns the trade data.
AgentExecuteTrade(from_token, to_token, amount, api, id) ==
    /\ IF AgentTradeCheck(agent_balance, from_token, to_token, amount) # "ok"
       THEN /\ agent_result' = None
            /\ UNCHANGED <<agent_balance, agent_history, api_calls, api_last>>
       ELSE /\ api_calls < MaxApiCalls
            /\ api_calls' = api_calls + 1
            /\ api_last' = api
            /\ IF api = "200"
               THEN /\ agent_balance' = update_balance_after_trade(
                            agent_balance, from_token, to_token, amount)
                    /\ agent_history' = record_trade(
                            agent_history, from_token, to_token, amount, id)
                    /\ agent_result' = <<"trade_data", id>>
               ELSE /\ agent_result' = None
                    /\ UNCHANGED <<agent_balance, agent_history>>
    /\ UNCHANGED <<simulated_balance, bot_response>>
    /\ UNCHANGED <<tcsVars, chatVars>>

\* One iteration of run: execute_strategy, then execute_trade on its decision.
AgentRun(api, id) ==
    LET trade_decision ==
            agent_trend_following_strategy(agent_market_data, agent_balance)
    IN  /\ trade_decision # NoDecision
        /\ AgentExecuteTrade(trade_decision[1], trade_decision[2],
                             trade_decision[3], api, id)

ApiControlInit ==
    /\ simulated_balance = bot_initial_balance
    /\ bot_response = "welcome"
    /\ agent_history = <<>>
    /\ agent_result = None
    /\ api_calls = 0
    /\ api_last = None

ApiInit == agent_balance = agent_initial_balance /\ ApiControlInit

(***************************************************************************)
(* The programs as a whole.                                                *)
(***************************************************************************)
\* No user has state, no line has been read.
NoParse == [command |-> None, shape |-> "none", params |-> <<>>]

\* No call of check_alerts is under way: `used` is the size of self.user_state
\* when the iteration over its items began, `alert` the stamp of the alert
\* the scan stopped at, 0 for none.
NoScan == [used |-> 0, alert |-> 0]

ChatInit ==
    /\ user_state = <<>>
    /\ last_alert_check = 0
    /\ created = 0
    /\ bot_pc = "input"
    /\ user_input = <<>>
    /\ parsed = NoParse
    /\ scan = [e \in Threads |-> NoScan]
    /\ reported = [a \in 1..MaxAlerts |-> 0]
    /\ faults = [t \in Loops |-> 0]

\* No strategy has been called on its own.
NoCall == [by |-> None, proposal |-> NoDecision]

EvalInit ==
    /\ snapshot = market_data
    /\ decision = NoCall

Init == TcsInit /\ ApiInit /\ ChatInit /\ EvalInit

ChatTradeStep == \E c \in ChatTrades : handle_trade(c[1], c[2], c[3])
ChatReadStep == \E cmd \in LedgerReaders : get_balance(cmd)
ChatHelpStep == \E cmd \in ReadOnlyCommands : show_help(cmd)
ChatStrategyStep == \E name \in StrategyInputs : set_strategy(name)
TradeStep == \E e \in Threads : execute_trade(e)
LoopStep == \E t \in Loops : auto_trading_loop(t)
ClockStep == \E d \in ClockSteps : Tick(d)

Next ==
    \/ ChatTradeStep
    \/ ChatReadStep
    \/ ChatHelpStep
    \/ ChatStrategyStep
    \/ start_auto_trading
    \/ stop_auto_trading
    \/ exit_bot
    \/ TradeStep
    \/ LoopStep
    \/ ClockStep

Spec == Init /\ [][Next]_vars

\* A session of trade, balance, strategy and start commands: one loop thread
\* trades beside the chat thread.
NextTrade ==
    \/ ChatTradeStep
    \/ get_balance("balance")
    \/ \E name \in {"trend", "random"} : set_strategy(name)
    \/ start_auto_trading
    \/ TradeStep
    \/ LoopStep
    \/ ClockStep

SpecTrade == Init /\ [][NextTrade]_vars

\* A session of strategy, start, stop and exit commands: the loop threads
\* trade, the chat thread does not.
NextSched ==
    \/ \E name \in {"trend", "hodl"} : set_strategy(name)
    \/ start_auto_trading
    \/ stop_auto_trading
    \/ exit_bot
    \/ TradeStep
    \/ LoopStep
    \/ ClockStep

SpecSched == Init /\ [][NextSched]_vars

\* The API-backed variants: trade commands to the bot, calls of the agent's
\* execute_trade and iterations of its run loop, each with the endpoint's answer.
BotStep == \E c \in BotTrades, api \in ApiOutcomes : BotHandleTrade(c[1], c[2], c[3], api)
AgentStep ==
    \E c \in AgentTrades, a \in ApiAnswers :
        AgentExecuteTrade(c[1], c[2], c[3], a[1], a[2])
AgentRunStep == \E a \in ApiAnswers : AgentRun(a[1], a[2])

NextApi ==
    \/ BotStep
    \/ AgentStep
    \/ AgentRunStep
    \/ ClockStep

SpecApi == Init /\ [][NextApi]_vars

\* Calls of parse_command, one per line.
NextParse == \E text \in ParseInputs : ParseLine(text)

SpecParse == Init /\ [][NextParse]_vars

\* The arguments of manage_alerts: None, and texts with the ids as the program
\* spells them (parse_command passes them on in lower case).
AlertCommands ==
    {<<>>,
     <<"a", "d", "d", " ", "W", "E", "T", "H", "_", "B", "T", "C", " ", "0", ".", "0", "5">>,
     <<"a", "d", "d", " ", "w", "e", "t", "h", "_", "b", "t", "c", " ", "0", ".", "0", "6">>,
     <<"a", "d", "d", " ", "w", "e", "t", "h", "_", "b", "t", "c", " ", "a", "b", "c">>,
     <<"r", "e", "m", "o", "v", "e", " ", "A", "L", "E", "R", "T", "-", "1">>,
     <<"r", "e", "m", "o", "v", "e", " ", "A", "L", "E", "R", "T", "-", "2">>,
     <<"l", "i", "s", "t">>,
     <<"c", "l", "e", "a", "r">>}

\* A session of alerts, strategy and start commands; the loop thread runs the
\* arbitrage strategy, which never trades, and checks the alerts.
NextAlerts ==
    \/ \E p \in AlertCommands : manage_alerts(p)
    \/ chat_check_alerts
    \/ set_strategy("arbitrage")
    \/ start_auto_trading
    \/ \E t \in Loops : LoopStart(t)
    \/ \E t \in Loops : LoopCond(t)
    \/ \E t \in Loops : LoopTime(t)
    \/ \E t \in Loops, rnd \in RandomDraws : LoopDecide(t, rnd)
    \/ \E t \in Loops : LoopAlerts(t)
    \/ \E t \in Loops : LoopSleep(t)
    \/ ClockStep

SpecAlerts == Init /\ [][NextAlerts]_vars

\* A process runs one of the two chat programs: the other one stays as built.
BotUnused == bot_pc = "input" /\ bot_response = "welcome" /\ api_calls = 0
ChatUnused == pc[Chat] = "input" /\ response = "welcome" /\ user_state = <<>>

ChatLineStep == BotUnused /\ \E text \in ChatLines : start_chat(text)
ChatInterruptStep == BotUnused /\ keyboard_interrupt
ChatAlertStep == BotUnused /\ chat_check_alerts
ChatExecuteStep == execute_trade(Chat)
BotLineStep ==
    ChatUnused /\ \E text \in BotLines, api \in ApiOutcomes : bot_start_chat(text, api)
BotInterruptStep == ChatUnused /\ bot_keyboard_interrupt

\* A chat session, line by line, of either program.
NextChat ==
    \/ ChatLineStep
    \/ ChatInterruptStep
    \/ ChatAlertStep
    \/ ChatExecuteStep
    \/ BotLineStep
    \/ BotInterruptStep
    \/ ClockStep

SpecChat == Init /\ [][NextChat]_vars

\* The ledgers with a history: a session of TradingChatSystem, or calls of
\* RecallTradingAgent; a process runs one of the two.
ApiUnused == BotUnused /\ agent_history = <<>> /\ agent_result = None
HistoryChatStep == ApiUnused /\ NextTrade
HistoryAgentStep == ChatUnused /\ active_strategy = None /\ (AgentStep \/ AgentRunStep)

NextHistory ==
    \/ HistoryChatStep
    \/ HistoryAgentStep

SpecHistory == Init /\ [][NextHistory]_vars

\* The sleep of a loop thread that exits at its next check runs out: the clock
\* reaches the time the thread wakes at, however far the clock went before.
SleepTick(t) ==
    /\ Running
    /\ pc[t] = "l_sleep"
    /\ now < wake[t]
    /\ ~(auto_trading_active /\ ~stop_event)
    /\ now' = wake[t]
    /\ UNCHANGED <<apiVars, chatVars>>
    /\ UNCHANGED <<balance, trade_history, active_strategy, auto_trading_active,
                   stop_event, auto_trading_thread, pc, frame, last_trade_time,
                   current_time, wake, response, pre, dirty, stop_seen>>

SleepStep == \E t \in Loops : SleepTick(t)

\* The session of NextSched with the sleeps that end.
NextStop ==
    \/ \E name \in {"trend", "hodl"} : set_strategy(name)
    \/ start_auto_trading
    \/ stop_auto_trading
    \/ exit_bot
    \/ TradeStep
    \/ LoopStep
    \/ ClockStep
    \/ SleepStep

\* A loop thread is a thread of the operating system: while the process runs
\* it is scheduled again and again, and its sleep ends when its time is over.
\* The commands of the chat thread come when the user types them, or never.
LoopFairness ==
    \A t \in Loops :
        WF_vars(auto_trading_loop(t) \/ execute_trade(t) \/ SleepTick(t))

SpecStop == Init /\ [][NextStop]_vars /\ LoopFairness

\* The strategies called on their own, on any ledger and any market data.
\* The balances are multiples of 0.05, of which risk_factor is a whole number
\* of thousandths; the changes lie around the thresholds 0.02 and -0.01, the
\* prices around 0.98 and 1.02 of the mean of 24h_high and 24h_low.
(***************************************************************************)
(* check_alerts, one step per access to the shared user state: the         *)
(* iterator over self.user_state.items() is made, its first item is taken  *)
(* and the alerts are scanned up to the first one that is due, and that    *)
(* alert is flagged and reported.  The chat thread and every loop thread   *)
(* run these steps interleaved, with each other and with manage_alerts.    *)
(***************************************************************************)
\* The stamp of the first alert that is not triggered and whose pair has a
\* price at or above the target; 0 when there is none.
FirstDue(us) ==
    LET alerts == Alerts(us)
        due == {i \in DOMAIN alerts :
                   /\ ~alerts[i].triggered
                   /\ \E key \in DOMAIN market_data :
                        /\ PairText(key) = alerts[i].pair
                        /\ market_data[key].price >= alerts[i].target_price}
    IN  IF due = {} THEN 0
        ELSE alerts[CHOOSE i \in due : \A j \in due : i <= j].created

\* What the scan of thread e comes to: a dict iterator raises RuntimeError
\* (dictionary changed size during iteration) when the size of the dict is
\* not the one it was made with.
ScanOutcome(e) ==
    IF Cardinality(DOMAIN user_state) # scan[e].used THEN "fault"
    ELSE IF FirstDue(user_state) = 0 THEN "none"
    ELSE "due"

\* alert["triggered"] = True, on the alert object the scan stopped at: the
\* list shows it when the alert is still in it.
Flagged(us, stamp) ==
    IF user_id \notin DOMAIN us THEN us
    ELSE WithAlerts([i \in DOMAIN Alerts(us) |->
             IF Alerts(us)[i].created = stamp
             THEN [Alerts(us)[i] EXCEPT !.triggered = TRUE]
             ELSE Alerts(us)[i]])

\* The end of an iteration of auto_trading_loop: time.sleep(5) begins.
EndIteration(t) ==
    /\ wake' = [wake EXCEPT ![t] = now + poll_sleep]
    /\ pc' = [pc EXCEPT ![t] = "l_sleep"]

\* for user_id, state in self.user_state.items(): the iterator is made.
LoopCheckIter(t) ==
    /\ Running
    /\ pc[t] = "l_alerts"
    /\ scan' = [scan EXCEPT ![t] = [used |-> Cardinality(DOMAIN user_state),
                                    alert |-> 0]]
    /\ pc' = [pc EXCEPT ![t] = "l_scan"]
    /\ UNCHANGED <<apiVars, user_state, last_alert_check, created, bot_pc,
                   user_input, parsed, evalVars, reported, faults>>
    /\ UNCHANGED <<balance, trade_history, active_strategy, auto_trading_active,
                   stop_event, auto_trading_thread, now, frame, last_trade_time,
                   current_time, wake, response, pre, dirty, stop_seen>>

\* The scan of the loop's check_alerts; a RuntimeError is caught by the
\* `except Exception` of auto_trading_loop.
LoopCheckScan(t) ==
    /\ Running
    /\ pc[t] = "l_scan"
    /\ current_time' = [current_time EXCEPT ![t] = 0]
    /\ \E outcome \in {ScanOutcome(t)} :
         /\ IF outcome = "fault"
            THEN /\ Raise(t)
                 /\ faults' = [faults EXCEPT ![t] = @ + 1]
                 /\ scan' = [scan EXCEPT ![t] = NoScan]
            ELSE IF outcome = "none"
            THEN /\ EndIteration(t)
                 /\ scan' = [scan EXCEPT ![t] = NoScan]
                 /\ UNCHANGED <<frame, response, faults>>
            ELSE /\ pc' = [pc EXCEPT ![t] = "l_flag"]
                 /\ scan' = [scan EXCEPT ![t].alert = FirstDue(user_state)]
                 /\ UNCHANGED <<frame, response, faults, wake>>
    /\ UNCHANGED <<apiVars, user_state, last_alert_check, created, bot_pc,
                   user_input, parsed, evalVars, reported>>
    /\ UNCHANGED <<balance, trade_history, active_strategy, auto_trading_active,
                   stop_event, auto_trading_thread, now, last_trade_time,
                   pre, dirty, stop_seen>>

\* alert["triggered"] = True; return the message; the loop logs it.
LoopCheckFlag(t) ==
    /\ Running
    /\ pc[t] = "l_flag"
    /\ user_state' = Flagged(user_state, scan[t].alert)
    /\ reported' = [reported EXCEPT ![scan[t].alert] = @ + 1]
    /\ scan' = [scan EXCEPT ![t] = NoScan]
    /\ EndIteration(t)
    /\ UNCHANGED <<apiVars, last_alert_check, created, bot_pc, user_input, parsed,
                   evalVars, faults>>
    /\ UNCHANGED <<balance, trade_history, active_strategy, auto_trading_active,
                   stop_event, auto_trading_thread, now, frame, last_trade_time,
                   current_time, response, pre, dirty, stop_seen>>

\* The top of start_chat's loop when alert_check_interval seconds have
\* passed: check_alerts is called and makes its iterator.
ChatCheckIter ==
    /\ pc[Chat] = "input"
    /\ now - last_alert_check > alert_check_interval
    /\ scan' = [scan EXCEPT ![Chat] = [used |-> Cardinality(DOMAIN user_state),
                                       alert |-> 0]]
    /\ pc' = [pc EXCEPT ![Chat] = "c_scan"]
    /\ UNCHANGED <<apiVars, user_state, last_alert_check, created, bot_pc,
                   user_input, parsed, evalVars, reported, faults>>
    /\ UNCHANGED <<balance, trade_history, active_strategy, auto_trading_active,
                   stop_event, auto_trading_thread, now, frame, last_trade_time,
                   current_time, wake, response, pre, dirty, stop_seen>>

\* The scan of the chat loop's check_alerts.  The call stands outside the
\* inner try of start_chat: an exception would end the session.
ChatCheckScan ==
    /\ pc[Chat] = "c_scan"
    /\ \E outcome \in {ScanOutcome(Chat)} :
         IF outcome = "fault"
         THEN /\ pc' = [pc EXCEPT ![Chat] = "exited"]
              /\ scan' = [scan EXCEPT ![Chat] = NoScan]
              /\ UNCHANGED last_alert_check
         ELSE IF outcome = "none"
         THEN /\ pc' = [pc EXCEPT ![Chat] = "input"]
              /\ scan' = [scan EXCEPT ![Chat] = NoScan]
              /\ last_alert_check' = now
         ELSE /\ pc' = [pc EXCEPT ![Chat] = "c_flag"]
              /\ scan' = [scan EXCEPT ![Chat].alert = FirstDue(user_state)]
              /\ UNCHANGED last_alert_check
    /\ UNCHANGED <<apiVars, user_state, created, bot_pc, user_input, parsed,
                   evalVars, reported, faults>>
    /\ UNCHANGED <<balance, trade_history, active_strategy, auto_trading_active,
                   stop_event, auto_trading_thread, now, frame, last_trade_time,
                   current_time, wake, response, pre, dirty, stop_seen>>

\* alert["triggered"] = True; return the message; start_chat prints it and
\* sets last_alert_check = current_time.
ChatCheckFlag ==
    /\ pc[Chat] = "c_flag"
    /\ user_state' = Flagged(user_state, scan[Chat].alert)
    /\ reported' = [reported EXCEPT ![scan[Chat].alert] = @ + 1]
    /\ scan' = [scan EXCEPT ![Chat] = NoScan]
    /\ response' = "alert_triggered"
    /\ last_alert_check' = now
    /\ pc' = [pc EXCEPT ![Chat] = "input"]
    /\ UNCHANGED <<apiVars, created, bot_pc, user_input, parsed, evalVars, faults>>
    /\ UNCHANGED <<balance, trade_history, active_strategy, auto_trading_active,
                   stop_event, auto_trading_thread, now, frame, last_trade_time,
                   current_time, wake, pre, dirty, stop_seen>>

\* The user's first alerts command, `alerts add weth_btc 0.05`: it makes the
\* user's entry of self.user_state and an alert that is due.
FirstAlert ==
    /\ user_id \notin DOMAIN user_state
    /\ manage_alerts(<<"a", "d", "d", " ", "w", "e", "t", "h", "_", "b", "t", "c", " ",
                       "0", ".", "0", "5">>)

\* A session of one alert with auto-trading started and stopped; the loops
\* run the arbitrage strategy, which never trades, and check the alerts, as
\* the chat loop does.
NextAlertRace ==
    \/ FirstAlert
    \/ set_strategy("arbitrage")
    \/ start_auto_trading
    \/ stop_auto_trading
    \/ ChatCheckIter
    \/ ChatCheckScan
    \/ ChatCheckFlag
    \/ \E t \in Loops : LoopStart(t)
    \/ \E t \in Loops : LoopCond(t)
    \/ \E t \in Loops : LoopTime(t)
    \/ \E t \in Loops, rnd \in RandomDraws : LoopDecide(t, rnd)
    \/ \E t \in Loops : LoopCheckIter(t)
    \/ \E t \in Loops : LoopCheckScan(t)
    \/ \E t \in Loops : LoopCheckFlag(t)
    \/ \E t \in Loops : LoopSleep(t)
    \/ ClockStep

SpecAlertRace == Init /\ [][NextAlertRace]_vars

\* Time passes by one trade interval, or by a second more, up to MaxClock.
MaxClock == 903     \* the last second of the clock

IntervalSteps == {trade_interval, trade_interval + 1}

Elapse(d) ==
    /\ Running
    /\ now + d <= MaxClock
    /\ now' = now + d
    /\ UNCHANGED <<apiVars, chatVars>>
    /\ UNCHANGED <<balance, trade_history, active_strategy, auto_trading_active,
                   stop_event, auto_trading_thread, pc, frame, last_trade_time,
                   current_time, wake, response, pre, dirty, stop_seen>>

\* One loop over several trade intervals: the trend strategy proposes a trade
\* at each evaluation, the arbitrage strategy never does.
NextInterval ==
    \/ \E name \in {"trend", "arbitrage"} : set_strategy(name)
    \/ start_auto_trading
    \/ TradeStep
    \/ LoopStep
    \/ \E d \in IntervalSteps : Elapse(d)

SpecInterval == Init /\ [][NextInterval]_vars

\* A session in which the user spends the whole USDC balance while loops
\* run the trend strategy, and stops and starts auto-trading.
NextOverdraw ==
    \/ handle_trade("USDC", "WETH", Amount(10000))
    \/ set_strategy("trend")
    \/ start_auto_trading
    \/ stop_auto_trading
    \/ TradeStep
    \/ LoopStep
    \/ ClockStep

SpecOverdraw == Init /\ [][NextOverdraw]_vars

UsdcBalances == {0, Tok(4000), Tok(5000), Tok(10000)}
WethBalances == {0, 50, Tok(5), Tok(10)}
Changes == {-25, -11, -10, -9, 0, 19, 20, 21, 25}
SnapshotPrices == {470, 471, 480, 489, 490}

Ledgers ==
    {("USDC" :> u) @@ ("WETH" :> w) @@ get_initial_balance :
        u \in UsdcBalances, w \in WethBalances}

Snapshots ==
    {(<<"USDC", "WETH">> :> [price |-> p, change |-> c, high |-> 500, low |-> 460])
        @@ market_data : p \in SnapshotPrices, c \in Changes}

StrategyDraws ==
    {<<"USDC", "WETH", Tok(10)>>, <<"WETH", "USDC", Tok(100)>>,
     <<"UNI", "USDC", Tok(55)>>}

InitStrategy ==
    /\ balance \in Ledgers
    /\ agent_balance = balance
    /\ snapshot \in Snapshots
    /\ decision = NoCall
    /\ TcsControlInit
    /\ ApiControlInit
    /\ ChatInit

\* One call of generate_trade_decision with a strategy active.
call_generate_trade_decision(strategy, rnd) ==
    /\ decision' = [by |-> strategy,
                    proposal |-> generate_trade_decision(strategy, snapshot, balance, rnd)]
    /\ UNCHANGED <<tcsVars, apiVars, user_state, last_alert_check, created, bot_pc,
                   user_input, parsed, snapshot, scanVars>>

\* One call of RecallTradingAgent.trend_following_strategy.
call_agent_trend_following_strategy ==
    /\ decision' = [by |-> "agent_trend",
                    proposal |-> agent_trend_following_strategy(snapshot, agent_balance)]
    /\ UNCHANGED <<tcsVars, apiVars, user_state, last_alert_check, created, bot_pc,
                   user_input, parsed, snapshot, scanVars>>

NextStrategy ==
    \/ \E strategy \in {"trend", "meanreversion", "random"}, rnd \in StrategyDraws :
           call_generate_trade_decision(strategy, rnd)
    \/ call_agent_trend_following_strategy

SpecStrategy == InitStrategy /\ [][NextStrategy]_vars

(***************************************************************************)
(* Properties.                                                             *)
(***************************************************************************)
Last(h) == h[Len(h)]

\* C1: a call of execute_trade with from_token # to_token and amount at most
\* the balance of from_token, with no write of another thread between its
\* first read and its return, leaves balance[from_token] lower by amount,
\* balance[to_token] higher by amount * price (from 0 when there was no entry),
\* price being the price of the record it appends, and every other entry as
\* it was.
C1_TradeAccounting ==
    [][\A e \in Threads :
        (/\ EtAppend(e)
         /\ ~dirty[e]
         /\ frame[e].from_token # frame[e].to_token
         /\ frame[e].amount <= pre[e][frame[e].from_token])
        => LET r == Last(trade_history')
               was == pre[e]
           IN  /\ r.from_token = frame[e].from_token
               /\ r.to_token = frame[e].to_token
               /\ r.amount = frame[e].amount
               /\ balance'[r.from_token] = was[r.from_token] - r.amount
               /\ balance'[r.to_token] =
                      Get(was, r.to_token) + MulDiv(r.amount, r.price[1], r.price[2])
               /\ DOMAIN balance' = DOMAIN was \cup {r.to_token}
               /\ \A k \in DOMAIN was \ {r.from_token, r.to_token} :
                      balance'[k] = was[k]
    ]_vars

\* The chat trade of 10000 USDC to UNI, alone: UNI had no entry, the price is 1.
C1_Witness ==
    /\ response = "trade_ok"
    /\ Len(trade_history) = 1
    /\ trade_history[1].to_token = "UNI"
    /\ trade_history[1].price = <<1, 1>>
    /\ balance = ("UNI" :> Tok(10000)) @@ [get_initial_balance EXCEPT !["USDC"] = 0]

\* The amount of trade command c is a number above the balance of its source
\* token, or the source token has no ledger entry.
ExceedsBalance(c) ==
    /\ c[3].parses
    /\ c[1] \notin DOMAIN balance \/ c[3].value > balance[c[1]]

Rejections == {"invalid_source", "invalid_target", "invalid_amount", "too_small",
               "too_large", "insufficient"}

\* C2, as claimed: a chat trade command whose amount exceeds the balance of the
\* source token is answered with the insufficient-balance message and changes
\* neither the ledger nor the history.
C2_Original ==
    [][\A c \in ChatTrades :
        (handle_trade(c[1], c[2], c[3]) /\ ExceedsBalance(c))
        => (response' = "insufficient" /\ UNCHANGED <<balance, trade_history>>)
    ]_vars

\* C2, amended: such a command is rejected, begins no execute_trade and changes
\* neither the ledger nor the history; the message is the insufficient-balance
\* one when both tokens are registered and the amount is within
\* [min_trade_amount, max_trade_amount], and the message of an earlier
\* validation otherwise.
C2_Amended ==
    [][\A c \in ChatTrades :
        (handle_trade(c[1], c[2], c[3]) /\ ExceedsBalance(c))
        => /\ UNCHANGED <<balance, trade_history, pc, frame>>
           /\ response' \in Rejections
           /\ (/\ c[1] \in TOKENS
               /\ c[2] \in TOKENS
               /\ c[3].value >= Tok(min_trade_amount)
               /\ c[3].value <= Tok(max_trade_amount))
              => response' = "insufficient"
    ]_vars

C2_Witness ==
    /\ response = "insufficient"
    /\ pc[Chat] = "input"
    /\ trade_history = <<>>
    /\ balance = get_initial_balance

\* C3: every record of trade_history has an amount within
\* [min_trade_amount, max_trade_amount], whichever path executed the trade.
C3_HistoryAmountsInRange ==
    \A i \in 1..Len(trade_history) :
        /\ trade_history[i].amount >= Tok(min_trade_amount)
        /\ trade_history[i].amount <= Tok(max_trade_amount)

\* C4: every balance of the ledger is >= 0.
C4_BalancesNonNegative == \A k \in DOMAIN balance : balance[k] >= 0

\* C5: at most one auto_trading_loop thread is live.
C5_AtMostOneLoop == Cardinality({t \in Loops : Live(t)}) <= 1

\* C6: a start command while auto_trading_active is true answers that the loop
\* is already running, spawns no thread and leaves auto_trading_active,
\* stop_event, the thread reference, the ledger and the history as they were.
C6_StartWhileRunning ==
    [][(start_auto_trading /\ auto_trading_active)
       => /\ response' = "already_running"
          /\ UNCHANGED <<auto_trading_active, stop_event, auto_trading_thread, pc,
                         balance, trade_history>>
    ]_vars

C6_Witness ==
    /\ response = "already_running"
    /\ auto_trading_active
    /\ auto_trading_thread = 1
    /\ Cardinality({t \in Loops : pc[t] # "unborn"}) = 1

\* C7: a loop thread that was live when a stop command was handled and has
\* evaluated its loop condition since writes no balance and appends no trade.
C7_NoTradeAfterPoll ==
    [][\A t \in Loops :
        stop_seen[t] = "survived" => ~(EtDebitWr(t) \/ EtCreditWr(t) \/ EtAppend(t))
    ]_vars

\* C8: auto_trading_active is true only with a registered strategy selected;
\* a start command with no strategy selected is refused, leaving
\* auto_trading_active false and spawning no thread; and auto_trading_active
\* becomes true by a start command with a registered strategy only.
C8_RunningHasStrategy ==
    /\ [](auto_trading_active => active_strategy \in strategies)
    /\ [][(start_auto_trading /\ active_strategy = None)
          => /\ response' = "no_strategy"
             /\ ~auto_trading_active'
             /\ UNCHANGED <<auto_trading_active, auto_trading_thread, pc>>
       ]_vars
    /\ [][(~auto_trading_active /\ auto_trading_active')
          => (start_auto_trading /\ active_strategy \in strategies)
       ]_vars

C8_Witness ==
    /\ response = "no_strategy"
    /\ active_strategy = None
    /\ ~auto_trading_active
    /\ \A t \in Loops : pc[t] = "unborn"

\* A call of execute_trade by e has written its debit and not yet its credit.
DebitedNotCredited(e) ==
    /\ pc[e] \in {"et_credit_rd", "et_credit_wr"}
    /\ frame[e].amount # 0

\* C9: a balance command never reads the ledger between the debit and the
\* credit of a trade.
C9_NoTornRead ==
    [][get_balance("balance") => ~(\E e \in Threads : DebitedNotCredited(e))]_vars

\* C10: when the request of a trade gets a response that is not a 200, or
\* raises, RecallChatBot leaves simulated_balance as it was and returns a
\* failure message, and RecallTradingAgent leaves balance and trade_history as
\* they were and returns None.
C10_ApiFailureLeavesState ==
    [][/\ \A c \in BotTrades, api \in ApiFailures :
            (BotHandleTrade(c[1], c[2], c[3], api) /\ api_calls' # api_calls)
            => /\ simulated_balance' = simulated_balance
               /\ bot_response' \in {"trade_failed_text", "trade_failed_no_response"}
       /\ \A c \in AgentTrades, api \in ApiFailures :
            (AgentExecuteTrade(c[1], c[2], c[3], api, None) /\ api_calls' # api_calls)
            => /\ UNCHANGED <<agent_balance, agent_history>>
               /\ agent_result' = None
       /\ \A api \in ApiFailures :
            (AgentRun(api, None) /\ api_calls' # api_calls)
            => /\ UNCHANGED <<agent_balance, agent_history>>
               /\ agent_result' = None
    ]_vars

C10_Witness ==
    /\ api_calls = MaxApiCalls
    /\ api_last \in ApiFailures
    /\ bot_response = "trade_failed_no_response"
    /\ agent_result = None
    /\ simulated_balance = bot_initial_balance
    /\ agent_balance = agent_initial_balance
    /\ agent_history = <<>>

\* C11: in RecallChatBot, a trade whose amount exceeds the simulated balance
\* of the source token (a source with no entry included) fails and changes
\* neither the source nor the destination balance.
C11_BotInsufficientBalance ==
    [][\A c \in BotTrades, a \in ApiOutcomes :
        (/\ BotHandleTrade(c[1], c[2], c[3], a)
         /\ c[3].parses
         /\ c[3].value > Get(simulated_balance, c[1]))
        => /\ simulated_balance' = simulated_balance
           /\ bot_response' # "trade_ok"
    ]_vars

\* The line matches one of the patterns with parameters.
MatchesPattern(text) ==
    \/ trade_match(text).ok
    \/ market_match(text).ok
    \/ strategy_match(text).ok
    \/ price_match(text).ok
    \/ alerts_match(text).ok

\* The registered names that are a prefix of the text.
PrefixNames(text) == {i \in DOMAIN commands : startswith(text, commands[i].text)}

\* C13, as claimed: a line "trade <sym> to <sym> <number>" parses to trade with
\* the parameters (SYM, SYM, number), the symbols in upper case; a line
\* "alerts add <pair> <price>" to alerts with the parameters ("add", PAIR,
\* price); a line that matches no rule to unknown with the raw text.
C13_Original ==
    /\ \A lead \in Leads, kw \in Keywords, sep \in Seps, a \in Symbols,
          b \in Symbols, n \in Numbers :
            user_input = TradeLine(lead, kw, sep, a, b, n)
            => parsed = Parsed("trade", "tuple", <<upper(a), upper(b), n>>)
    /\ \A lead \in Leads, sep \in Seps, pair \in Pairs, target \in Prices :
            user_input = AlertsAddLine(lead, sep, pair, target)
            => parsed = Parsed("alerts", "tuple", <<<<"a", "d", "d">>, upper(pair), target>>)
    /\ (/\ parsed # NoParse
        /\ ~MatchesPattern(lower(strip(user_input)))
        /\ PrefixNames(lower(strip(user_input))) = {})
       => parsed = Parsed("unknown", "str", <<user_input>>)

\* C13, amended: parse_command trims and lower-cases the line first.  A line
\* "trade <sym> to <sym> <number>" parses to trade with the three captures in
\* lower case, which handle_trade turns to upper case; a line
\* "alerts add <pair> <price>" to alerts with the one string
\* "add <pair> <price>" in lower case, which manage_alerts splits into three
\* parts and whose pair it turns to upper case; a line that matches no pattern
\* and begins with no registered name to unknown with the trimmed,
\* lower-cased text.
C13_Amended ==
    /\ \A lead \in Leads, kw \in Keywords, sep \in Seps, a \in Symbols,
          b \in Symbols, n \in Numbers :
            user_input = TradeLine(lead, kw, sep, a, b, n)
            => /\ parsed = Parsed("trade", "tuple", <<lower(a), lower(b), n>>)
               /\ <<upper(parsed.params[1]), upper(parsed.params[2]), parsed.params[3]>>
                      = <<upper(a), upper(b), n>>
    /\ \A lead \in Leads, sep \in Seps, pair \in Pairs, target \in Prices :
            user_input = AlertsAddLine(lead, sep, pair, target)
            => /\ parsed = Parsed("alerts", "str",
                       <<<<"a", "d", "d", " ">> \o lower(pair \o sep \o target)>>)
               /\ split(parsed.params[1]) = <<<<"a", "d", "d">>, lower(pair), lower(target)>>
               /\ upper(split(parsed.params[1])[2]) = upper(pair)
    /\ (/\ parsed # NoParse
        /\ ~MatchesPattern(lower(strip(user_input)))
        /\ PrefixNames(lower(strip(user_input))) = {})
       => parsed = Parsed("unknown", "str", <<lower(strip(user_input))>>)

\* " Trade usdc to WETH 0.055" has been parsed.
C13_Witness ==
    /\ user_input = <<" ", "T", "r", "a", "d", "e", " ", "u", "s", "d", "c", " ", "t", "o",
                      " ", "W", "E", "T", "H", " ", "0", ".", "0", "5", "5">>
    /\ parsed.command = "trade"
    /\ parsed.params = <<<<"u", "s", "d", "c">>, <<"w", "e", "t", "h">>,
                         <<"0", ".", "0", "5", "5">>>>

\* C14: for a line that matches none of the patterns with parameters,
\* parse_command returns the longest registered name that is a prefix of the
\* trimmed, lower-cased line, and unknown exactly when no registered name is a
\* prefix of it.
C14_LongestPrefix ==
    LET text == lower(strip(user_input))
        found == PrefixNames(text)
    IN  (parsed # NoParse /\ ~MatchesPattern(text))
        => /\ parsed.command = "unknown" <=> found = {}
           /\ found # {} =>
                \E i \in found :
                    /\ parsed.command = commands[i].name
                    /\ parsed.shape = "none"
                    /\ \A j \in found : Len(commands[j].text) <= Len(commands[i].text)

\* "settings trade_interval 5" has been parsed: the command settings, no parameter.
C14_Witness ==
    /\ user_input = CommandText("settings") \o <<" ">>
                    \o <<"t", "r", "a", "d", "e", "_", "i", "n", "t", "e", "r", "v", "a", "l">>
                    \o <<" ", "5">>
    /\ parsed = Parsed("settings", "none", <<>>)

\* Alert b is alert a, flagged or as it was.
SameAlert(a, b) ==
    /\ b.created = a.created
    /\ b.id = a.id
    /\ b.pair = a.pair
    /\ b.target_price = a.target_price
    /\ a.triggered => b.triggered

\* The step is an "alerts remove" of the id of alert a.
RemovesAlert(a) ==
    \E p \in AlertCommands :
        /\ manage_alerts(p)
        /\ Len(split(p)) >= 2
        /\ split(p)[1] = <<"r", "e", "m", "o", "v", "e">>
        /\ split(p)[2] = AlertIdText(a.id)

\* C17: check_alerts, run by the chat loop or by a loop thread, neither adds
\* nor removes an alert and turns no triggered flag back; and in any step an
\* alert of the list stays in it, its flag going from false to true at most,
\* unless the step is an "alerts remove" of its id.
C17_AlertsLeaveByRemoveOnly ==
    [][LET old == Alerts(user_state)
           new == Alerts(user_state')
       IN  /\ (chat_check_alerts \/ \E t \in Loops : LoopAlerts(t))
              => /\ Len(new) = Len(old)
                 /\ \A i \in DOMAIN old : SameAlert(old[i], new[i])
           /\ \A i \in DOMAIN old :
                \/ \E j \in DOMAIN new : SameAlert(old[i], new[j])
                \/ RemovesAlert(old[i])
    ]_vars

\* Two alerts were added, a check has flagged the first, and a remove of
\* ALERT-2 has taken the second off the list: the flagged one is still there.
C17_Witness ==
    /\ created = 2
    /\ Len(Alerts(user_state)) = 1
    /\ Alerts(user_state)[1].triggered
    /\ Alerts(user_state)[1].id = 1
    /\ response = "alert_removed"

\* What a session of TradingChatSystem prints in answer to a line.
ChatMessages ==
    {"trade_ok", "processing_error", "format_error", "invalid_source",
     "invalid_target", "invalid_amount", "too_small", "too_large",
     "insufficient", "balance", "portfolio",
     "help", "unknown", "strategy_current", "strategy_set", "strategy_invalid",
     "no_strategy", "already_running", "started", "not_running", "stopped",
     "goodbye", "alerts_usage", "alert_added", "invalid_price", "alert_removed",
     "alert_not_found", "alerts_invalid", "alerts_none", "alerts_list",
     "market", "price", "history", "tokens", "settings", "status"}

\* What a session of RecallChatBot prints in answer to a line.
BotMessages ==
    {"trade_ok", "processing_error", "format_error", "invalid_source",
     "invalid_target", "invalid_amount", "too_small", "too_large",
     "trade_failed_text",
     "trade_failed_no_response", "balance", "help", "unknown", "goodbye",
     "market", "price", "history", "tokens", "settings", "strategy", "alerts",
     "portfolio"}

\* The lines typed that are blank, that parse to exit, and the other ones.
ChatBlankLines == {text \in ChatLines : ChatLineTable[text].blank}
ChatExitLines ==
    {text \in ChatLines \ ChatBlankLines : ChatLineTable[text].p.command = "exit"}
ChatCommandLines == ChatLines \ (ChatBlankLines \cup ChatExitLines)
BotBlankLines == {text \in BotLines : BotLineTable[text].blank}
BotExitLines ==
    {text \in BotLines \ BotBlankLines : BotLineTable[text].p.command = "exit"}
BotCommandLines == BotLines \ (BotBlankLines \cup BotExitLines)

\* C12: in a chat session of either program every line read, whether it names
\* a registered command, parses to unknown or makes its handler raise, is
\* answered by a printed message and leaves the session at its prompt (or in
\* the trade it began); a blank line changes nothing; and the session ends
\* by the exit command or a keyboard interrupt and by nothing else.
C12_SessionLoop ==
    [][/\ \A text \in ChatCommandLines :
            (BotUnused /\ pc'[Chat] = "input" /\ response' \notin ChatMessages)
                => ~start_chat(text)
       /\ \A text \in ChatCommandLines :
            (BotUnused /\ pc'[Chat] \notin {"input"} \cup EtPcs) => ~start_chat(text)
       /\ \A text \in ChatExitLines :
            (BotUnused /\ pc'[Chat] # "exited") => ~start_chat(text)
       /\ \A text \in ChatBlankLines :
            (BotUnused /\ vars' # vars) => ~start_chat(text)
       /\ (/\ pc[Chat] \in EtPcs
           /\ \/ pc'[Chat] \notin {"input"} \cup EtPcs
              \/ pc'[Chat] = "input" /\ response' \notin {"trade_ok", "processing_error"})
            => ~execute_trade(Chat)
       /\ (pc[Chat] # "exited" /\ pc'[Chat] = "exited") =>
                \/ keyboard_interrupt
                \/ \E text \in ChatExitLines : start_chat(text)
       /\ \A text \in BotCommandLines, api \in ApiOutcomes :
            (ChatUnused /\ (bot_response' \notin BotMessages \/ bot_pc' # "input"))
                => ~bot_start_chat(text, api)
       /\ \A text \in BotExitLines, api \in ApiOutcomes :
            (ChatUnused /\ bot_pc' # "exited") => ~bot_start_chat(text, api)
       /\ \A text \in BotBlankLines, api \in ApiOutcomes :
            (ChatUnused /\ vars' # vars) => ~bot_start_chat(text, api)
       /\ (bot_pc # "exited" /\ bot_pc' = "exited") =>
                \/ bot_keyboard_interrupt
                \/ \E text \in BotExitLines, api \in ApiOutcomes :
                       bot_start_chat(text, api)
      ]_vars

\* A handler of RecallChatBot raised, the error was printed, and the session
\* is at its prompt again.
C12_Witness ==
    /\ bot_pc = "input"
    /\ bot_response = "processing_error"
    /\ api_last = "200_bad_json"

\* C15: the ids of the records in trade_history are pairwise distinct, also
\* when the chat thread and a loop thread run execute_trade at once and when
\* two trades fall into the same clock second.
C15_IdsDistinct ==
    \A i, j \in DOMAIN trade_history :
        i # j => trade_history[i].id # trade_history[j].id

IsPrefix(s, t) == Len(s) <= Len(t) /\ SubSeq(t, 1, Len(s)) = s

\* C16: trade_history is append-only: in every step the history before is a
\* prefix of the history after, it grows by at most one record, and it grows
\* exactly in the step that completes a successful trade (the append of
\* execute_trade; for the agent, the call the endpoint answered with 200).
C16_HistoryAppendOnly ==
    [][/\ IsPrefix(trade_history, trade_history')
       /\ Len(trade_history') <= Len(trade_history) + 1
       /\ (Len(trade_history') = Len(trade_history) + 1)
              <=> (\E e \in Threads : pc[e] = "et_append" /\ EtAppend(e))
       /\ IsPrefix(agent_history, agent_history')
       /\ Len(agent_history') <= Len(agent_history) + 1
       /\ (Len(agent_history') = Len(agent_history) + 1)
              <=> (api_calls' = api_calls + 1 /\ api_last' = "200"
                   /\ agent_balance' # agent_balance)
      ]_vars

\* Two trades were executed and recorded, one after the other.
C16_Witness ==
    /\ Len(trade_history) = 2
    /\ trade_history[1].id # trade_history[2].id

\* What the records of a history debited from a token, and credited to it.
RECURSIVE Debited(_, _)
Debited(h, tok) ==
    IF h = <<>> THEN 0
    ELSE Debited(Tail(h), tok) + (IF Head(h).from_token = tok THEN Head(h).amount ELSE 0)

RECURSIVE Credited(_, _)
Credited(h, tok) ==
    IF h = <<>> THEN 0
    ELSE Credited(Tail(h), tok) + (IF Head(h).to_token = tok THEN Head(h).received ELSE 0)

\* C19: when no execute_trade is under way, every balance is what the trades
\* of the history give in any sequential order: the initial balance, less
\* every amount debited, plus every amount credited; concurrent trades of the
\* chat thread and a loop thread on one token lose no debit and no credit.
C19_NoLostUpdate ==
    (\A e \in Threads : pc[e] \notin EtPcs) =>
        \A tok \in TOKENS :
            Get(balance, tok) =
                Get(get_initial_balance, tok) - Debited(trade_history, tok)
                    + Credited(trade_history, tok)

\* The snapshot price of a pair as a fraction, its reciprocal, and the number one.
DirectPrice(pair) == Ratio(market_data[pair].price, 1000000)
ReversePrice(pair) == Ratio(1000000, market_data[pair].price)

\* C20: the price of every record from A to B is the snapshot price of A_B
\* when that pair is listed, else the reciprocal of the price of B_A when that
\* pair is listed, else 1; the received amount recorded is amount * price; and
\* the step that credits adds exactly that amount to the balance it read.
C20_PriceLookup ==
    /\ \A i \in DOMAIN trade_history :
        LET r == trade_history[i]
            ab == <<r.from_token, r.to_token>>
            ba == <<r.to_token, r.from_token>>
        IN  /\ r.price = IF ab \in DOMAIN market_data THEN DirectPrice(ab)
                         ELSE IF ba \in DOMAIN market_data THEN ReversePrice(ba)
                         ELSE <<1, 1>>
            /\ r.received = (r.amount * r.price[1]) \div r.price[2]
    /\ \A e \in Threads :
        pc[e] \in {"et_id", "et_append"} =>
            LET f == frame[e]
                ab == <<f.from_token, f.to_token>>
                ba == <<f.to_token, f.from_token>>
                price == IF ab \in DOMAIN market_data THEN DirectPrice(ab)
                         ELSE IF ba \in DOMAIN market_data THEN ReversePrice(ba)
                         ELSE <<1, 1>>
            IN  /\ f.price = price
                /\ f.received = (f.amount * price[1]) \div price[2]
                /\ ~dirty[e] =>
                      Get(balance, f.to_token) =
                          f.received + (IF f.from_token = f.to_token
                                        THEN Get(pre[e], f.to_token) - f.amount
                                        ELSE Get(pre[e], f.to_token))

\* The history holds a trade at a listed price, one at the reciprocal of the
\* reverse pair's price, and one at the default price.
C20_Witness ==
    /\ \E i \in DOMAIN trade_history :
          /\ trade_history[i].from_token = "USDC" /\ trade_history[i].to_token = "WETH"
          /\ trade_history[i].price = <<3, 6250>>
    /\ \E i \in DOMAIN trade_history :
          /\ trade_history[i].from_token = "WETH" /\ trade_history[i].to_token = "USDC"
          /\ trade_history[i].price = <<6250, 3>>

\* C18: a loop thread that a stop command found live leaves its loop at its
\* next check of the loop condition unless auto-trading was started again,
\* and it does so eventually: after the stop the thread is done, or a start
\* command followed, or the process has ended (or the thread waits at the
\* trade budget of this model).
C18_StopObserved ==
    /\ [][\A t \in Loops :
            (LoopCond(t) /\ stop_seen[t] = "stopped" /\ ~auto_trading_active)
                => pc'[t] = "done"]_vars
    /\ \A t \in Loops :
          (stop_seen[t] = "stopped")
              ~> \/ pc[t] = "done"
                 \/ auto_trading_active
                 \/ ~Running
                 \/ pc[t] = "l_decide" /\ TradesBegun >= MaxTrades

\* A loop thread was stopped and has left its loop; no start followed.
C18_Witness ==
    \E t \in Loops :
        /\ stop_seen[t] = "stopped"
        /\ pc[t] = "done"
        /\ ~auto_trading_active
        /\ \A u \in Loops : ~Live(u)

\* The size of a buy and of a sell: min(default_trade_amount, balance[USDC] *
\* risk_factor) and min(0.1, balance[WETH] * risk_factor), in thousandths.
BuySize(bal) ==
    IF 100000 * 100 <= Get(bal, "USDC") * 2 THEN 100000 ELSE (Get(bal, "USDC") * 2) \div 100
SellSize(bal) ==
    IF 100 * 100 <= Get(bal, "WETH") * 2 THEN 100 ELSE (Get(bal, "WETH") * 2) \div 100

\* C21: whatever the 24h change of USDC_WETH is, the trend strategy of either
\* program proposes a buy of USDC for WETH exactly when the change is above
\* 0.02, a sell of WETH for USDC exactly when it is below -0.01, and nothing
\* from -0.01 to 0.02, both included; the sizes are BuySize and SellSize.
C21_TrendThresholds ==
    LET change == snapshot[<<"USDC", "WETH">>].change IN
    /\ decision.by = "trend" =>
          decision.proposal =
              IF change > 20 THEN <<"USDC", "WETH", BuySize(balance)>>
              ELSE IF change < -10 THEN <<"WETH", "USDC", SellSize(balance)>>
              ELSE <<>>
    /\ decision.by = "agent_trend" =>
          decision.proposal =
              IF change > 20 THEN <<"USDC", "WETH", BuySize(agent_balance)>>
              ELSE IF change < -10 THEN <<"WETH", "USDC", SellSize(agent_balance)>>
              ELSE <<>>

\* The trend strategy was called at the boundary 0.02 and proposed nothing.
C21_Witness ==
    /\ decision.by = "trend"
    /\ snapshot[<<"USDC", "WETH">>].change = 20
    /\ decision.proposal = <<>>

\* C22: a strategy of generate_trade_decision returns at most one proposal, a
\* triple <<from_token, to_token, amount>> or nothing; every proposal has an
\* amount above zero, and none is made when the balance of the token it
\* would sell is zero.
C22_ProposalPositive ==
    decision.by \in {"trend", "meanreversion", "random"} =>
        \/ decision.proposal = NoDecision
        \/ /\ Len(decision.proposal) = 3
           /\ decision.proposal[3] > 0
           /\ Get(balance, decision.proposal[1]) > 0

\* C27: no trade has the same token as source and destination: every record
\* of the trade history has from_token # to_token, both in the token registry.
C27_NoSelfTrade ==
    \A i \in 1..Len(trade_history) :
        /\ trade_history[i].from_token # trade_history[i].to_token
        /\ trade_history[i].from_token \in TOKENS
        /\ trade_history[i].to_token \in TOKENS

\* C24: the reason a loop builds for its trade names the strategy that
\* produced the decision, also when the active strategy is changed between
\* generate_trade_decision and the construction of the reason.
C24_ReasonNamesStrategy ==
    [][\A t \in Loops :
         (pc[t] = "l_reason" /\ LoopReason(t)) => frame'[t].reason = frame[t].by]_vars

\* An alert that is not triggered and whose pair has a price at or above its
\* target.
Crossing(alert) ==
    /\ ~alert.triggered
    /\ \E key \in DOMAIN market_data :
         /\ PairText(key) = alert.pair
         /\ market_data[key].price >= alert.target_price

\* The alerts after one call of check_alerts on the alerts `before`: the
\* first crossing alert, in insertion order, is triggered and nothing else
\* changes.
FirstCrossingFlipped(before, after) ==
    /\ Len(after) = Len(before)
    /\ \A i \in DOMAIN before :
         after[i] = IF Crossing(before[i]) /\ \A j \in 1..(i - 1) : ~Crossing(before[j])
                    THEN [before[i] EXCEPT !.triggered = TRUE]
                    ELSE before[i]

\* C26: one call of check_alerts flips at most one alert and reports at most
\* one: the first untriggered alert, in insertion order, whose price is at or
\* above its target; later alerts that cross stay untriggered.
\* The chat loop prints the report when there is such an alert and nothing
\* when there is none.
C26_OneAlertPerCall ==
    [][/\ (pc[Chat] = "input" /\ chat_check_alerts) =>
            /\ FirstCrossingFlipped(Alerts(user_state), Alerts(user_state'))
            /\ response' = IF \E i \in DOMAIN Alerts(user_state) :
                                    Crossing(Alerts(user_state)[i])
                            THEN "alert_triggered"
                            ELSE response
       /\ \A t \in Loops : (pc[t] = "l_alerts" /\ LoopAlerts(t)) =>
            FirstCrossingFlipped(Alerts(user_state), Alerts(user_state'))]_vars

\* The chat loop's check has just reported the first of two crossing alerts
\* and left the second one untriggered.
C26_Witness ==
    /\ response = "alert_triggered"
    /\ \E i, j \in DOMAIN Alerts(user_state) :
         /\ i < j
         /\ Alerts(user_state)[i].triggered
         /\ Crossing(Alerts(user_state)[j])

C30_ProposalWithinBalance ==
    \A t \in Loops : pc[t] = "l_decide" =>
        \A rnd \in RandomDraws :
            \A d \in {generate_trade_decision(active_strategy, market_data, balance, rnd)} :
                d # NoDecision => d[3] <= Get(balance, d[1])

\* The program counters of a loop between its interval test and the end of
\* the trade it decided on.
TradingPcs == {"l_decide", "l_reason"} \cup EtPcs

\* C23: a loop begins a trade only when its clock reading is more than
\* trade_interval after its interval clock, last_trade_time; that clock is
\* set to the time of the loop's start and then, when a trade of the loop is
\* done, to the clock reading of the iteration that made it, and by nothing
\* else: not when the strategy returns no decision.  So the first trade comes
\* more than trade_interval after the start and the readings of consecutive
\* trades are more than trade_interval apart.
C23_TradeInterval ==
    [][\A t \in Loops :
         /\ (pc[t] = "l_decide" /\ pc'[t] = "l_reason") =>
                /\ current_time[t] - last_trade_time[t] > trade_interval
                /\ current_time[t] <= now
         /\ (pc[t] = "l_decide" /\ pc'[t] = "l_alerts") =>
                last_trade_time'[t] = last_trade_time[t]
         /\ (pc[t] \in TradingPcs /\ pc'[t] \in TradingPcs) =>
                /\ current_time'[t] = current_time[t]
                /\ last_trade_time'[t] = last_trade_time[t]
         /\ last_trade_time'[t] # last_trade_time[t] =>
                \/ pc[t] = "l_start" /\ last_trade_time'[t] = now
                \/ /\ pc[t] = "et_append"
                   /\ Len(trade_history') = Len(trade_history) + 1
                   /\ last_trade_time'[t] = current_time[t]
                   /\ last_trade_time'[t] - last_trade_time[t] > trade_interval]_vars

\* One loop has made two trades, the second after the clock of the first.
C23_Witness ==
    /\ Len(trade_history) = 2
    /\ \A i \in 1..2 : trade_history[i].reason = "trend"
    /\ \E t \in Loops : last_trade_time[t] > 2 * trade_interval

\* C29: with the chat loop and the background loops both calling
\* check_alerts, each alert is reported as triggered at most once.
C29_ReportedOnce == \A a \in DOMAIN reported : reported[a] <= 1

\* C25: a fault raised inside an iteration of auto_trading_loop is caught in
\* that iteration: the loop sleeps error_sleep seconds and goes on to test
\* its loop condition again.  A loop ends only at that test, when
\* auto_trading_active is false or stop_event is set.
C25_FaultsAreCaught ==
    [][\A t \in Loops :
         /\ (pc[t] # "done" /\ pc'[t] = "done") =>
                /\ pc[t] = "l_cond"
                /\ ~auto_trading_active \/ stop_event
         /\ faults'[t] # faults[t] =>
                /\ pc'[t] = "l_sleep"
                /\ wake'[t] = now + error_sleep
         /\ (pc[t] = "l_sleep" /\ pc'[t] # "l_sleep") => pc'[t] = "l_cond"]_vars

\* A loop has caught a fault of its alert check and is in a later iteration.
C25_Witness ==
    \E t \in Loops : faults[t] > 0 /\ pc[t] = "l_alerts"

====
